---- MODULE Spec2Model ----
(***************************************************************************)
(* State-machine model of image-crusher: the bulk orchestrator of          *)
(* RunBulk.py (process_files_in_parallel) dispatching assets to worker     *)
(* containers that run main.py / FileProcessor.py against a shared object  *)
(* store.                                                                  *)
(*                                                                         *)
(* Python strings are modelled as sequences of one-character strings, so   *)
(* that os.path and str operations are computed, not assumed.  None and    *)
(* the empty string are both the empty sequence for content types (the     *)
(* code only ever tests their truthiness).                                 *)
(***************************************************************************)
EXTENDS Integers, Sequences, FiniteSets, TLC

(***************************************************************************)
(* Bounds of the model.                                                    *)
(***************************************************************************)
MaxAssets == 4
MaxContainers == 2
MaxRuns == 2
MaxVideos == 3

Min(a, b) == IF a <= b THEN a ELSE b

\* A function as an explicit table, computed once.
Tabulate(fn) == fn @@ <<>>

(***************************************************************************)
(* Python str operations.                                                  *)
(***************************************************************************)
UpperAlphabet == <<"A","B","C","D","E","F","G","H","I","J","K","L","M",
                   "N","O","P","Q","R","S","T","U","V","W","X","Y","Z">>
LowerAlphabet == <<"a","b","c","d","e","f","g","h","i","j","k","l","m",
                   "n","o","p","q","r","s","t","u","v","w","x","y","z">>

\* str.lower()
lower(s) ==
    [i \in 1..Len(s) |->
        IF \E k \in 1..26 : UpperAlphabet[k] = s[i]
        THEN LowerAlphabet[CHOOSE k \in 1..26 : UpperAlphabet[k] = s[i]]
        ELSE s[i]]

\* str.upper()
upper(s) ==
    [i \in 1..Len(s) |->
        IF \E k \in 1..26 : LowerAlphabet[k] = s[i]
        THEN UpperAlphabet[CHOOSE k \in 1..26 : LowerAlphabet[k] = s[i]]
        ELSE s[i]]

\* str.startswith(prefix)
startswith(s, prefix) ==
    /\ Len(prefix) <= Len(s)
    /\ SubSeq(s, 1, Len(prefix)) = prefix

\* str.endswith(suffix)
endswith(s, suffix) ==
    /\ Len(suffix) <= Len(s)
    /\ SubSeq(s, Len(s) - Len(suffix) + 1, Len(s)) = suffix

\* the `sub in s` operator on strings
contains(s, sub) ==
    \E i \in 1..(Len(s) - Len(sub) + 1) : SubSeq(s, i, i + Len(sub) - 1) = sub

\* str.rfind(c) + 1 for a one-character c: 1-based position of the last c, 0 if none
rfind(s, c) ==
    IF \E i \in 1..Len(s) : s[i] = c
    THEN CHOOSE i \in 1..Len(s) : s[i] = c /\ \A j \in (i+1)..Len(s) : s[j] # c
    ELSE 0

\* str.rstrip('/')
RECURSIVE rstrip_slash(_)
rstrip_slash(s) ==
    IF s # <<>> /\ s[Len(s)] = "/" THEN rstrip_slash(SubSeq(s, 1, Len(s) - 1)) ELSE s

(***************************************************************************)
(* posixpath: dirname, basename, splitext, join.                           *)
(***************************************************************************)
dirname(p) ==
    LET head == SubSeq(p, 1, rfind(p, "/"))
    IN  IF head # <<>> /\ (\E i \in 1..Len(head) : head[i] # "/")
        THEN rstrip_slash(head)
        ELSE head

basename(p) == SubSeq(p, rfind(p, "/") + 1, Len(p))

\* splitext(p) = <<root, ext>>: the extension starts at the last dot of the
\* last component, unless that component has only leading dots before it.
splitext(p) ==
    LET sepIndex == rfind(p, "/")
        dotIndex == rfind(p, ".")
    IN  IF /\ dotIndex > sepIndex
           /\ \E k \in (sepIndex + 1)..(dotIndex - 1) : p[k] # "."
        THEN <<SubSeq(p, 1, dotIndex - 1), SubSeq(p, dotIndex, Len(p))>>
        ELSE <<p, <<>> >>

\* os.path.join(a, b)
join(a, b) ==
    IF startswith(b, <<"/">>) THEN b
    ELSE IF a = <<>> \/ endswith(a, <<"/">>) THEN a \o b
    ELSE a \o <<"/">> \o b

(***************************************************************************)
(* src/src/constants.py                                                    *)
(***************************************************************************)
TYPE_UNKNOWN == "unknown"
TYPE_IMAGE == "image"
TYPE_VIDEO == "video"

THUMBS_DIRECTORY == <<"T","H","U","M","B","S">>
COMPRESSED_DIRECTORY == <<"C","O","M","P","R","E","S","S","E","D">>
IMAGE_OUTPUT_FORMAT == <<"w","e","b","p">>

VIDEO_FORMATS ==
    { <<".","m","p","4">>, <<".","m","o","v">>, <<".","a","v","i">>,
      <<".","w","m","v">>, <<".","f","l","v">>, <<".","m","k","v">>,
      <<".","w","e","b","m">>, <<".","m","4","v">>, <<".","m","p","g">>,
      <<".","m","p","e","g">>, <<".","3","g","p">>, <<".","3","g","2">>,
      <<".","t","s">>, <<".","m","t","s">>, <<".","m","2","t","s">>,
      <<".","m","p","2">>, <<".","M","P","4">> }

\* CompressionUtils.SUPPORTED_EXTENSIONS / SUPPORTED_MIMETYPES
SUPPORTED_EXTENSIONS ==
    { <<".","j","p","g">>, <<".","j","p","e","g">>, <<".","p","n","g">>,
      <<".","b","m","p">>, <<".","t","i","f","f">>, <<".","t","i","f">>,
      <<".","g","i","f">>, <<".","w","e","b","p">> }

SUPPORTED_MIMETYPES ==
    { <<"i","m","a","g","e","/","j","p","e","g">>,
      <<"i","m","a","g","e","/","p","n","g">>,
      <<"i","m","a","g","e","/","b","m","p">>,
      <<"i","m","a","g","e","/","t","i","f","f">>,
      <<"i","m","a","g","e","/","g","i","f">>,
      <<"i","m","a","g","e","/","w","e","b","p">> }

(***************************************************************************)
(* Asset classifier: CompressionUtils.is_supported_image and               *)
(* FileProcessor.is_video_file / is_image_file / get_file_type.            *)
(* An absent argument (None) is the empty sequence.                        *)
(***************************************************************************)
is_supported_image(content_type, file_name) ==
    IF content_type # <<>> /\ content_type \in SUPPORTED_MIMETYPES THEN TRUE
    ELSE IF file_name # <<>>
         THEN splitext(lower(file_name))[2] \in SUPPORTED_EXTENSIONS
         ELSE FALSE

is_image_file(content_type, file_name) == is_supported_image(content_type, file_name)

\* Variant: the extension is compared as it is written in the name.
is_video_file_case_sensitive(content_type, file_name) ==
    IF content_type # <<>> /\ startswith(content_type, <<"v","i","d","e","o","/">>)
    THEN TRUE
    ELSE IF file_name # <<>> /\ splitext(file_name)[2] \in VIDEO_FORMATS
         THEN TRUE
         ELSE FALSE

is_video_file(content_type, file_name) ==
    IF content_type # <<>> /\ startswith(content_type, <<"v","i","d","e","o","/">>)
    THEN TRUE
    ELSE IF file_name # <<>> /\ splitext(lower(file_name))[2] \in VIDEO_FORMATS
         THEN TRUE
         ELSE FALSE

get_file_type(content_type, file_name) ==
    IF is_video_file(content_type, file_name) THEN TYPE_VIDEO
    ELSE IF is_image_file(content_type, file_name) THEN TYPE_IMAGE
    ELSE TYPE_UNKNOWN

(***************************************************************************)
(* Derived-path functions.                                                 *)
(***************************************************************************)
\* str(video_format) as formatted by the f-string of get_compressed_path;
\* the option is "None" when the caller supplies no format.
FormatStr(video_format) ==
    CASE video_format = "ts"   -> <<"t","s">>
      [] video_format = "webm" -> <<"w","e","b","m">>
      [] OTHER                 -> <<"N","o","n","e">>

\* RunBulk.get_thumb_path
get_thumb_path(blob_path) ==
    LET directory == dirname(blob_path)
        name_without_ext == splitext(basename(blob_path))[1]
    IN  join(join(directory, <<"T","H","U","M","B","S">>),
             name_without_ext \o <<".","w","e","b","p">>)

\* RunBulk.get_compressed_path
get_compressed_path(blob_path, video_format) ==
    LET directory == dirname(blob_path)
        name_without_ext == splitext(basename(blob_path))[1]
    IN  join(join(directory, <<"C","O","M","P","R","E","S","S","E","D">>),
             name_without_ext \o <<".">> \o FormatStr(video_format))

\* FileProcessor._prepare_file_paths
prepare_file_paths(file_name) ==
    LET file_dir == dirname(file_name)
        file_basename == basename(file_name)
        file_name_without_ext == splitext(file_basename)[1]
        thumb_dir == join(file_dir, THUMBS_DIRECTORY)
        compressed_dir == join(file_dir, COMPRESSED_DIRECTORY)
    IN  [ file_dir |-> file_dir,
          file_basename |-> file_basename,
          file_name_without_ext |-> file_name_without_ext,
          thumb_dir |-> thumb_dir,
          compressed_dir |-> compressed_dir,
          thumbs_path |-> join(thumb_dir,
                               file_name_without_ext \o <<".">> \o IMAGE_OUTPUT_FORMAT),
          compressed_path |-> join(compressed_dir,
                                   file_name_without_ext \o <<".","w","e","b","m">>) ]

\* main.process: the path the trigger handler uploads the thumbnail to;
\* output_extension is the 'extension' of the FileProcessor result.
trigger_output_path(file_name) ==
    LET file_dir == dirname(file_name)
        thumb_dir == join(file_dir, <<"T","H","U","M","B","S">>)
        file_name_without_ext == splitext(basename(file_name))[1]
        output_extension == <<".">> \o IMAGE_OUTPUT_FORMAT
    IN  join(thumb_dir, file_name_without_ext \o output_extension)

\* main.process: the THUMBS directory marker, f"{file_dir}/THUMBS/"
trigger_thumbs_marker(file_name) ==
    dirname(file_name) \o <<"/","T","H","U","M","B","S","/">>

\* FileProcessor.process_video: the two directory markers it ensures
video_dir_markers(file_name) ==
    LET file_dir == prepare_file_paths(file_name).file_dir
    IN  { file_dir \o <<"/">> \o THUMBS_DIRECTORY \o <<"/">>,
          file_dir \o <<"/">> \o COMPRESSED_DIRECTORY \o <<"/">> }

(***************************************************************************)
(* The objects of the bucket that a folder listing can return.  A blob is  *)
(* referred to by its position in AllBlobs.                                *)
(***************************************************************************)
AllBlobs ==
    << [ name |-> <<"a","/","x",".","j","p","g">>,
         content_type |-> <<"i","m","a","g","e","/","j","p","e","g">> ],
       [ name |-> <<"a","/","x",".","m","p","4">>,
         content_type |-> <<"v","i","d","e","o","/","m","p","4">> ],
       [ name |-> <<"a","/","y",".","b","i","n">>,
         content_type |-> <<"v","i","d","e","o","/","m","p","4">> ],
       [ name |-> <<"a","/","y",".","p","n","g">>,
         content_type |-> <<>> ],
       [ name |-> <<"a","/","z",".","M","O","V">>,
         content_type |-> <<>> ],
       [ name |-> <<"a","/","n",".","t","x","t">>,
         content_type |-> <<"t","e","x","t","/","p","l","a","i","n">> ],
       [ name |-> <<"a","/","T","h","u","m","b","s","/","t",".","j","p","g">>,
         content_type |-> <<"i","m","a","g","e","/","j","p","e","g">> ],
       [ name |-> <<"r",".","m","p","4">>,
         content_type |-> <<"v","i","d","e","o","/","m","p","4">> ],
       [ name |-> <<"a","/","w",".","t","s">>,
         content_type |-> <<>> ] >>

BlobIds == 1..Len(AllBlobs)

\* blob.name and blob.content_type, tabulated
BlobName == Tabulate([b \in BlobIds |-> AllBlobs[b].name])
BlobContentType == Tabulate([b \in BlobIds |-> AllBlobs[b].content_type])

\* A listing is a run of consecutive objects of the bucket (list_blobs with
\* a prefix returns a contiguous range of names), at most MaxAssets long.
Listings ==
    { l \in { [i \in 1..n |-> lo + i - 1] : lo \in BlobIds, n \in 0..MaxAssets } :
        \A i \in 1..Len(l) : l[i] \in BlobIds }

(***************************************************************************)
(* RunBulk: the orchestrator's filter.                                     *)
(***************************************************************************)
\* Variant: the file type is not looked at.
should_process_file_any_type(b) ==
    ~ \/ contains(BlobName[b], <<"/","T","H","U","M","B","S","/">>)
      \/ contains(BlobName[b], <<"/","t","h","u","m","b","s","/">>)
      \/ contains(BlobName[b], <<"/","C","O","M","P","R","E","S","S","E","D","/">>)
      \/ contains(BlobName[b], <<"/","c","o","m","p","r","e","s","s","e","d","/">>)

\* RunBulk.should_process_file, on blob.name and blob.content_type
should_process_blob(name, content_type) ==
    IF \/ contains(name, <<"/","T","H","U","M","B","S","/">>)
       \/ contains(name, <<"/","t","h","u","m","b","s","/">>)
       \/ contains(name, <<"/","C","O","M","P","R","E","S","S","E","D","/">>)
       \/ contains(name, <<"/","c","o","m","p","r","e","s","s","e","d","/">>)
    THEN FALSE
    ELSE IF get_file_type(content_type, name) = TYPE_UNKNOWN
         THEN FALSE
         ELSE TRUE

\* RunBulk.should_process_file on a blob of the bucket
should_process_file(b) == should_process_blob(BlobName[b], BlobContentType[b])

\* Variant: the compressed file is required whatever the file type.
processed_file_exists_strict(st, original_path, video_format) ==
    /\ get_compressed_path(original_path, video_format) \in st
    /\ get_thumb_path(original_path) \in st

\* RunBulk.processed_file_exists; exists() of a blob is membership in the store.
\* The file type is taken from the name alone (no content type is passed).
processed_file_exists(st, original_path, video_format) ==
    LET file_type == get_file_type(<<>>, original_path)
    IN  IF file_type = TYPE_VIDEO
        THEN LET compressed_exists ==
                     get_compressed_path(original_path, video_format) \in st
                 thumb_exists == get_thumb_path(original_path) \in st
             IN  compressed_exists /\ thumb_exists
        ELSE get_thumb_path(original_path) \in st

\* The filtering loop of process_files_in_parallel: the blobs kept in to_process.
RECURSIVE FilterBlobs(_, _, _)
FilterBlobs(bl, st, video_format) ==
    IF bl = <<>> THEN <<>>
    ELSE LET blob == Head(bl)
             rest == FilterBlobs(Tail(bl), st, video_format)
         IN  IF ~ should_process_file(blob) THEN rest
             ELSE IF processed_file_exists(st, BlobName[blob], video_format) THEN rest
             ELSE <<blob>> \o rest

\* RunBulk.setup_docker_containers: the number of containers in the returned list
setup_docker_containers(num_containers) ==
    IF num_containers > 1 THEN num_containers ELSE 1

\* RunBulk.cleanup_containers: the containers `docker stop` is run for. The
\* container at index 0 is the main container, image-crusher-local.
cleanup_containers(containers_len, keep_main) ==
    { i \in 0..(containers_len - 1) : ~ (keep_main /\ i = 0) }

(***************************************************************************)
(* The worker container: main.http_handler / main.process /                *)
(* FileProcessor.process, as one request.                                  *)
(***************************************************************************)
\* RunBulk.process_single_file: the contentType put in the request
request_content_type(content_type) ==
    IF content_type # <<>> THEN content_type
    ELSE <<"a","p","p","l","i","c","a","t","i","o","n","/",
           "o","c","t","e","t","-","s","t","r","e","a","m">>

\* main.process: the test that makes the trigger return without processing
trigger_skips(file_name) ==
    \/ contains(file_name, <<"/","T","H","U","M","B","S","/">>)
    \/ endswith(file_name, <<"/","T","H","U","M","B","S">>)
    \/ contains(upper(file_name), <<"/","T","H","U","M","B","S","/">>)
    \/ contains(file_name, <<"/","C","O","M","P","R","E","S","S","E","D","/">>)
    \/ endswith(file_name, <<"/","C","O","M","P","R","E","S","S","E","D">>)
    \/ contains(upper(file_name), <<"/","C","O","M","P","R","E","S","S","E","D","/">>)
    \/ endswith(file_name, <<".","w","e","b","p">>)
    \/ endswith(file_name, <<".","t","s">>)

\* The ways one request can go in the container:
\*   "skipped"      main.process returned at its THUMBS/COMPRESSED/.webp/.ts test
\*   "unsupported"  FileProcessor.process raised ValueError
\*   "image_failed" process_image raised (download or encode)
\*   "video_failed" process_video raised after ensuring the directory markers
\*                  and before any byte of the compressed file was uploaded
\*   "processed"    the pipeline returned and the thumbnail was uploaded
process_outcomes(file_name, content_type) ==
    IF trigger_skips(file_name) THEN {"skipped"}
    ELSE LET file_type == get_file_type(content_type, file_name)
         IN  IF file_type = TYPE_IMAGE THEN {"image_failed", "processed"}
             ELSE IF file_type = TYPE_VIDEO
                  THEN {"video_failed", "processed"}
             ELSE {"unsupported"}

\* The objects one request writes to the bucket.
objects_written(file_name, content_type, outcome) ==
    LET file_type == get_file_type(content_type, file_name)
        video_markers == IF file_type = TYPE_VIDEO
                         THEN video_dir_markers(file_name) ELSE {}
        compressed == IF file_type = TYPE_VIDEO
                      THEN {prepare_file_paths(file_name).compressed_path} ELSE {}
    IN  CASE outcome = "processed" ->
                video_markers \cup compressed \cup
                {trigger_thumbs_marker(file_name), trigger_output_path(file_name)}
          [] outcome = "video_failed" -> video_markers
          [] OTHER -> {}

\* main.http_handler: the status of the response
response_status(outcome) ==
    IF outcome \in {"skipped", "processed"} THEN 200 ELSE 500

\* The request the orchestrator sends for blob b (its name, and its content
\* type as put in the event): the ways it can go and what each way writes.
RequestOutcomes ==
    Tabulate([b \in BlobIds |->
        process_outcomes(BlobName[b], request_content_type(BlobContentType[b]))])

RequestWrites ==
    Tabulate([b \in BlobIds |->
        Tabulate([outcome \in RequestOutcomes[b] |->
            objects_written(BlobName[b],
                            request_content_type(BlobContentType[b]), outcome)])])

\* RunBulk.process_single_file: the value returned for a response
single_file_result(status_code) ==
    IF status_code = 200 THEN "ok" ELSE "http_error"

(***************************************************************************)
(* State.                                                                  *)
(***************************************************************************)
VARIABLES
    store,            \* names of the objects that exist in the bucket
    blobs,            \* the listing handed to process_files_in_parallel
    video_format,     \* the video_format option: "ts", "webm" or "None"
    num_containers,   \* the num_containers option
    run,              \* which invocation of the orchestrator this is
    pc,               \* position of the orchestrator in process_files_in_parallel
    containers,       \* len(containers)
    to_process,       \* the filtered pending list
    futures,          \* index in to_process of each tracked future |-> container_idx
    fstate,           \* what each tracked future holds: "running" or its outcome
    done,             \* the futures returned by the last wait, not yet handled
    next_blob_index,
    completed_count,
    success_count,
    fail_count,
    \* history variables, read by the properties only
    dispatched,       \* number of submit_task calls of this run
    dispatch_count,   \* per blob, number of times it was submitted in this run
    existed_at_filter,\* blobs whose derived artifacts existed when filtered
    already_processed,\* blobs the filter skipped as "already exists"
    returned_ok,      \* futures of this run that completed with a true result
    returned_failed,  \* futures of this run that completed false or raised
    pipelines_ok,     \* requests of this run whose pipeline wrote its artifacts
    prev_run_complete \* the previous run processed every accepted asset successfully

\* State of one request inside a worker container (main.http_handler,
\* main.process, FileProcessor.process_image / process_video).
VARIABLES
    event,              \* the data of the event: its name and contentType
    hpc,                \* position of the request handler; "idle" when no request
    response,           \* status code of the HTTP response, 0 while there is none
    temp_files,         \* temporary files that exist in the container
    thumb_local_path,   \* process_video's local thumb_local_path
    metadata_local_path,\* process_video's local metadata_local_path
    fifo,               \* the named pipe: "none", "exists" or "unlinked"
    ffmpeg_process,     \* "none", "opening", "writing", "exit_zero", "exit_nonzero"
    uploader,           \* upload thread: "none", "started", "opening",
                        \* "blocked_open", "streaming", "finished"
    upload_success,     \* the threading.Event: set or not
    upload_error_cell,  \* upload_error in create_upload_worker's frame (nonlocal)
    upload_error,       \* upload_error in process_video's frame
    video_result,       \* "none", "Done" (process_video returned), "Failed" (raised)
    \* history variables, read by the properties only
    probe_runs,         \* the ffprobe invocations, each with its result
    thumb_attempts,     \* the thumbnail commands run, each with its result
    wait_timed_out,     \* upload_success.wait(timeout=60) returned on timeout
    error_at_wait,      \* the uploader had reported an error when the wait returned
    stream_formats      \* the -f argument of the ffmpeg command, the content
                        \* type of the upload and the one set on the blob

\* State of the worker process that outlives a request (the settings
\* dictionaries of constants.py), and the numbers of the video being processed.
VARIABLES
    settings,            \* SMALL_/MEDIUM_/LARGE_VIDEO_SETTINGS as they are now
    file_size,           \* blob.size of the video, in KiB
    compression_settings,\* the dictionary determine_video_settings returned:
                         \* "small", "medium", "large"; "none" before the call
    video_height,        \* the height parse_video_dimensions returned, -1
                         \* before the probe
    transcode_resolution,\* the resolution in the ffmpeg command, 0 while none
    selected             \* history: per video of this process, its size and
                         \* height, the dictionary returned, its content at
                         \* the return, and the resolution given to ffmpeg

settings_vars == << settings, file_size, compression_settings, video_height,
                    transcode_resolution, selected >>

\* One call of a function of the program on given arguments.
VARIABLES
    fn_call,            \* the function called and its arguments
    fn_result           \* << what it returned >>, << >> before it returns

fn_vars == << fn_call, fn_result >>

\* The containers of the pool and the interrupt of the orchestrator.
VARIABLES
    keep_container,     \* the keep_container option
    started_containers, \* indices of the containers `docker run` has started
    stop_requested,     \* indices of the containers `docker stop` was run for
    interrupted         \* SIGINT has arrived: signal_handler called sys.exit(1)

container_vars == << started_containers, stop_requested, interrupted >>

request_vars == << event, hpc, response, temp_files, thumb_local_path,
                   metadata_local_path, fifo, ffmpeg_process, uploader,
                   upload_success, upload_error_cell, upload_error, video_result,
                   probe_runs, thumb_attempts, wait_timed_out, error_at_wait,
                   stream_formats,
                   settings_vars, fn_vars >>

worker_vars == << settings_vars, fn_vars >>

orchestrator_vars ==
        << keep_container, container_vars,
           blobs, video_format, num_containers, run, pc, containers,
           to_process, futures, fstate, done, next_blob_index, completed_count,
           success_count, fail_count, dispatched, dispatch_count,
           existed_at_filter, already_processed, returned_ok, returned_failed,
           pipelines_ok, prev_run_complete >>

vars == << store, orchestrator_vars, request_vars >>

inputs == << blobs, video_format, num_containers, keep_container >>
counters == << completed_count, success_count, fail_count >>
worker_history == << returned_ok, returned_failed, pipelines_ok >>
filter_history == << existed_at_filter, already_processed >>

EmptyMap == [x \in {} |-> 0]

\* The blob a tracked future works on
BlobOf(f) == to_process[f + 1]

\* The accepted assets of a listing, and whether one's derived artifacts exist:
\* the thumbnail, and for an asset classified Video (content type and name
\* together) the compressed file, at the orchestrator's derived paths.
ShouldProcess == Tabulate([b \in BlobIds |-> should_process_file(b)])

Accepted(bl) == { bl[i] : i \in { j \in 1..Len(bl) : ShouldProcess[bl[j]] } }

DerivedArtifactsExist(st, b, fmt) ==
    /\ get_thumb_path(BlobName[b]) \in st
    /\ get_file_type(BlobContentType[b], BlobName[b]) = TYPE_VIDEO
          => get_compressed_path(BlobName[b], fmt) \in st

(***************************************************************************)
(* constants.py video settings and VideoCompressionUtils'                  *)
(* determine_video_settings; FileProcessor.process_video's clamp.          *)
(***************************************************************************)
\* Threshold sizes in GB
SMALL_VIDEO_THRESHOLD == 1
MEDIUM_VIDEO_THRESHOLD == 5

\* File sizes are counted in KiB (blob.size is in bytes; 5 GiB in bytes does
\* not fit 32 bits): 1024 * 1024 * 1024 bytes in KiB.
KiBPerGiB == 1048576

SMALL_VIDEO_SETTINGS == [crf |-> 25, resolution |-> 720, audio_bitrate |-> 96]
MEDIUM_VIDEO_SETTINGS == [crf |-> 28, resolution |-> 720, audio_bitrate |-> 64]
LARGE_VIDEO_SETTINGS == [crf |-> 30, resolution |-> 480, audio_bitrate |-> 32]

\* The three module-level dictionaries when constants.py has been imported.
InitialSettings ==
    [ small |-> SMALL_VIDEO_SETTINGS,
      medium |-> MEDIUM_VIDEO_SETTINGS,
      large |-> LARGE_VIDEO_SETTINGS ]

\* Variant: a size equal to the threshold is below it.
below_threshold_inclusive(size_kib, threshold) == size_kib <= threshold * KiBPerGiB

\* file_size_gb < threshold, where file_size_gb = file_size_bytes / 1024^3
below_threshold(size_kib, threshold) == size_kib < threshold * KiBPerGiB

\* determine_video_settings: which of the three dictionaries is returned (the
\* dictionary itself, not a copy of it).
determine_video_settings(size_kib) ==
    IF below_threshold(size_kib, SMALL_VIDEO_THRESHOLD) THEN "small"
    ELSE IF below_threshold(size_kib, MEDIUM_VIDEO_THRESHOLD) THEN "medium"
    ELSE "large"

\* process_video: if video_height > 0 and video_height <
\* compression_settings['resolution'], the resolution entry of the returned
\* dictionary is assigned video_height. sett is the three dictionaries,
\* returned the one determine_video_settings returned.
clamp_resolution(sett, returned, height) ==
    IF height > 0 /\ height < sett[returned].resolution
    THEN [sett EXCEPT ![returned].resolution = height]
    ELSE sett

(***************************************************************************)
(* CompressionUtils.compress_image, on the size of the image.              *)
(***************************************************************************)
\* CompressionUtils.THUMBNAIL_HEIGHT, the default of the height argument
THUMBNAIL_HEIGHT == 512

\* img.size after the transposition for the EXIF orientation: 5, 6, 7 and 8
\* rotate by a quarter turn; 0 stands for an image without the tag.
oriented_size(width, height_img, orientation) ==
    IF orientation \in {5, 6, 7, 8}
    THEN << height_img, width >>
    ELSE << width, height_img >>

\* Variant: the image is always resized to the target height.
compress_image_always_resized(width, height_img, orientation, height) ==
    LET target == IF height = <<>> THEN THUMBNAIL_HEIGHT ELSE height[1]
        size == oriented_size(width, height_img, orientation)
        new_size == << (size[1] * target) \div size[2], target >>
    IN  IF new_size[1] > 0 /\ new_size[2] > 0
        THEN [ raised |-> FALSE, size |-> new_size ]
        ELSE [ raised |-> TRUE, size |-> << 0, 0 >> ]

\* compress_image on an image of width x height_img pixels with the given
\* orientation tag; height is << >> for None. It returns the size of the
\* file it wrote, or raises when the size to write has no pixels.
\* int(float(width) * (resize_height / float(height_actual))) is taken as
\* the whole part of width * resize_height / height_actual.
compress_image(width, height_img, orientation, height) ==
    LET target == IF height = <<>> THEN THUMBNAIL_HEIGHT ELSE height[1]
        size == oriented_size(width, height_img, orientation)
        height_actual == size[2]
        new_size ==
            IF height_actual <= target
            THEN << size[1], height_actual >>
            ELSE << (size[1] * target) \div height_actual, target >>
    IN  IF new_size[1] > 0 /\ new_size[2] > 0
        THEN [ raised |-> FALSE, size |-> new_size ]
        ELSE [ raised |-> TRUE, size |-> << 0, 0 >> ]

(***************************************************************************)
(* VideoCompressionUtils.determine_thumbnail_position and the command.     *)
(***************************************************************************)
\* Variant: a video of ten seconds or more always gets the 3-second mark.
determine_thumbnail_position_three_seconds(duration) ==
    IF duration < 10 * 1000 THEN duration \div 2 ELSE 3 * 1000

\* determine_thumbnail_position. Times are in milliseconds, and the durations
\* it is called on (Durations) are multiples of 20 ms, for which duration / 2
\* and duration / 10 are whole numbers of milliseconds.
determine_thumbnail_position(duration) ==
    IF duration < 10 * 1000
    THEN duration \div 2
    ELSE Min(3 * 1000, duration \div 10)

\* build_ffmpeg_command: the height of its scale=-2:<resolution> filter
scale_filter_height(compression) == compression.resolution

\* No function call is being observed.
NoCall == [fn |-> "none"]

\* The worker process has just started and handles no video.
SettingsIdle ==
    /\ settings = InitialSettings
    /\ file_size = 0
    /\ compression_settings = "none"
    /\ video_height = -1
    /\ transcode_resolution = 0
    /\ selected = <<>>

WorkerIdle ==
    /\ SettingsIdle
    /\ fn_call = NoCall
    /\ fn_result = <<>>

\* The sizes a video can have, in KiB: each threshold, the size just below it
\* and the size just above it, an empty file and a file of 7 GiB.
Sizes ==
    { 0, 7 * KiBPerGiB }
    \cup UNION { { t * KiBPerGiB - 1, t * KiBPerGiB, t * KiBPerGiB + 1 } :
                 t \in { SMALL_VIDEO_THRESHOLD, MEDIUM_VIDEO_THRESHOLD } }

\* The heights parse_video_dimensions can return: 0 when the metadata has no
\* video stream with a height, else the height of the first video stream.
Heights == { 0, 360, 720, 1080 }

\* process_video, line by line, on the settings: determine_video_settings on
\* the size of the blob,
SelectSettings(size) ==
    /\ file_size' = size
    /\ compression_settings' = determine_video_settings(size)
    /\ selected' = Append(selected,
                          [ size |-> size,
                            returned |-> settings[determine_video_settings(size)] ])
    /\ UNCHANGED << settings, video_height, transcode_resolution >>

\* the adjustment of the resolution to the probed height,
AdjustResolution(height) ==
    /\ video_height' = height
    /\ settings' = clamp_resolution(settings, compression_settings, height)
    /\ UNCHANGED << file_size, compression_settings, transcode_resolution, selected >>

\* and build_ffmpeg_command on the dictionary determine_video_settings returned.
BuildCommand ==
    /\ transcode_resolution' = scale_filter_height(settings[compression_settings])
    /\ UNCHANGED << settings, file_size, compression_settings, video_height, selected >>

\* constants.py: VIDEO_OUTPUT_FORMAT = VIDEO_FORMAT_TS
VIDEO_OUTPUT_FORMAT == "ts"

\* format_type = output_format or VIDEO_OUTPUT_FORMAT; "None" stands for None.
format_type(output_format) ==
    IF output_format \in {"None", ""} THEN VIDEO_OUTPUT_FORMAT ELSE output_format

\* build_ffmpeg_command: the argument of -f for the output.
ffmpeg_container_format(output_format) ==
    CASE format_type(output_format) = "webm" -> "webm"
      [] format_type(output_format) = "mp4" -> "mpegts"
      [] format_type(output_format) = "ts" -> "mpegts"
      [] OTHER -> "webm"

\* upload_worker: the content type of the signed URL and of the PUT.
upload_content_type(output_format) ==
    CASE format_type(output_format) = "mp4" -> "video/mp4"
      [] format_type(output_format) = "ts" -> "video/mp2t"
      [] OTHER -> "video/webm"

\* process_video: compressed_blob.content_type = "video/webm"
compressed_blob_content_type == "video/webm"

\* Nothing has been declared yet.
NoFormats == [container |-> "none", upload |-> "none", blob |-> "none"]

\* No request is being handled: the request state of a run of the orchestrator,
\* whose requests are taken as single steps (ContainerResponds).
NoEvent == [name |-> <<>>, content_type |-> <<>>, options |-> EmptyMap]

HandlerIdle ==
    /\ event = NoEvent
    /\ hpc = "idle"
    /\ response = 0
    /\ temp_files = {}
    /\ thumb_local_path = "none"
    /\ metadata_local_path = "none"
    /\ fifo = "none"
    /\ ffmpeg_process = "none"
    /\ uploader = "none"
    /\ upload_success = FALSE
    /\ upload_error_cell = FALSE
    /\ upload_error = FALSE
    /\ video_result = "none"
    /\ probe_runs = <<>>
    /\ thumb_attempts = <<>>
    /\ wait_timed_out = FALSE
    /\ error_at_wait = FALSE
    /\ stream_formats = NoFormats

RequestIdle ==
    /\ HandlerIdle
    /\ WorkerIdle

\* The state when the orchestrator is started on a listing with its options.
StartWith(bl, fmt, n, keep) ==
    /\ keep_container = keep
    /\ started_containers = {}
    /\ stop_requested = {}
    /\ interrupted = FALSE
    /\ store = { BlobName[b] : b \in BlobIds }
    /\ blobs = bl
    /\ video_format = fmt
    /\ num_containers = n
    /\ run = 1
    /\ pc = "filter"
    /\ containers = 0
    /\ to_process = <<>>
    /\ futures = EmptyMap
    /\ fstate = EmptyMap
    /\ done = {}
    /\ next_blob_index = 0
    /\ completed_count = 0
    /\ success_count = 0
    /\ fail_count = 0
    /\ dispatched = 0
    /\ dispatch_count = [b \in BlobIds |-> 0]
    /\ existed_at_filter = {}
    /\ already_processed = {}
    /\ returned_ok = 0
    /\ returned_failed = 0
    /\ pipelines_ok = 0
    /\ prev_run_complete = FALSE
    /\ RequestIdle

\* The same without --keep-container
Start(bl, fmt, n) == StartWith(bl, fmt, n, FALSE)

Init ==
    \E bl \in Listings, fmt \in {"ts", "webm", "None"}, n \in 1..MaxContainers :
        Start(bl, fmt, n)

(***************************************************************************)
(* process_files_in_parallel, step by step.                                *)
(***************************************************************************)
\* Variant: every blob skipped as already processed is counted as a success.
Filter_counting_skipped ==
    /\ pc = "filter"
    /\ containers' = setup_docker_containers(num_containers)
    /\ started_containers' = 0..(setup_docker_containers(num_containers) - 1)
    /\ UNCHANGED << stop_requested, interrupted >>
    /\ to_process' = FilterBlobs(blobs, store, video_format)
    /\ existed_at_filter' =
           { b \in Accepted(blobs) : DerivedArtifactsExist(store, b, video_format) }
    /\ already_processed' =
           { b \in Accepted(blobs) :
                 processed_file_exists(store, BlobName[b], video_format) }
    /\ success_count' = success_count + Cardinality(already_processed')
    /\ pc' = "seed"
    /\ UNCHANGED << request_vars, store, inputs, run, futures, fstate, done, next_blob_index,
                    completed_count, fail_count, dispatched, dispatch_count,
                    worker_history, prev_run_complete >>

\* Set up the containers and filter the blobs that need processing.
Filter ==
    /\ pc = "filter"
    /\ containers' = setup_docker_containers(num_containers)
    /\ started_containers' = 0..(setup_docker_containers(num_containers) - 1)
    /\ UNCHANGED << stop_requested, interrupted >>
    /\ to_process' = FilterBlobs(blobs, store, video_format)
    /\ existed_at_filter' =
           { b \in Accepted(blobs) : DerivedArtifactsExist(store, b, video_format) }
    /\ already_processed' =
           { b \in Accepted(blobs) :
                 processed_file_exists(store, BlobName[b], video_format) }
    /\ pc' = "seed"
    /\ UNCHANGED << request_vars, store, inputs, run, futures, fstate, done, next_blob_index,
                    counters, dispatched, dispatch_count, worker_history,
                    prev_run_complete >>

\* Variant: the initial batch submits every pending blob.
InitialBatch_unbounded(tp, n) == Len(tp)

\* to_process[:len(containers)]: how many blobs the initial batch submits
InitialBatch(tp, n) == Min(n, Len(tp))

\* next_blob_index = len(containers)
InitialNextIndex(n) == n

\* Submit the initial batch: blob i goes to container i.
Seed ==
    /\ pc = "seed"
    /\ LET k == InitialBatch(to_process, containers)
       IN  /\ futures' = [i \in 0..(k - 1) |-> i]
           /\ fstate' = [i \in 0..(k - 1) |-> "running"]
           /\ dispatched' = k
           /\ dispatch_count' =
                  [b \in BlobIds |->
                      Cardinality({ i \in 1..k : to_process[i] = b })]
    /\ completed_count' = 0
    /\ next_blob_index' = InitialNextIndex(containers)
    /\ pc' = "wait"
    /\ UNCHANGED << request_vars, container_vars, store, inputs, run, containers, to_process, done,
                    success_count, fail_count, filter_history,
                    worker_history, prev_run_complete >>

\* Variant: the wait returns only once the earliest-submitted future has
\* completed, and returns that future alone (submission order).
FirstCompleted_in_submission_order(futs, fst) ==
    { f \in DOMAIN futs : fst[f] # "running" /\ \A g \in DOMAIN futs : f <= g }

\* concurrent.futures.wait(futures, return_when=FIRST_COMPLETED): the set it
\* returns once at least one tracked future has completed
FirstCompleted(futs, fst) == { f \in DOMAIN futs : fst[f] # "running" }

Wait ==
    /\ pc = "wait"
    /\ futures # EmptyMap
    /\ FirstCompleted(futures, fstate) # {}
    /\ done' = FirstCompleted(futures, fstate)
    /\ pc' = "handle"
    /\ UNCHANGED << request_vars, container_vars, store, inputs, run, containers, to_process, futures, fstate,
                    next_blob_index, counters, dispatched, dispatch_count,
                    filter_history, worker_history, prev_run_complete >>

\* Variant: any result that is not an exception is counted as a success.
CountsAsSuccess_unless_raised(result) == result # "raised"

\* future.result() is true
CountsAsSuccess(result) == result = "ok"

\* Variant: containers are assigned round-robin by blob index.
NextContainer_round_robin(container_idx, next_index, n) == next_index % n

\* The container the next blob is submitted to when the future that ran on
\* container_idx has been handled
NextContainer(container_idx, next_index, n) == container_idx

\* Variant: the index is not advanced after a submission.
AdvanceIndex_stuck(next_index) == next_index

\* Variant: the index is advanced past a blob that was never submitted.
AdvanceIndex_skipping(next_index) == next_index + 2

\* next_blob_index += 1
AdvanceIndex(next_index) == next_index + 1

\* One iteration of `for future in done`: pop the future, count its result,
\* submit the next blob to the container it used.
HandleOne(f) ==
    /\ pc = "handle"
    /\ f \in done
    /\ LET container_idx == futures[f]
           popped == [g \in DOMAIN futures \ {f} |-> futures[g]]
           popped_state == [g \in DOMAIN futures \ {f} |-> fstate[g]]
       IN  /\ IF CountsAsSuccess(fstate[f])
              THEN /\ success_count' = success_count + 1
                   /\ fail_count' = fail_count
              ELSE /\ success_count' = success_count
                   /\ fail_count' = fail_count + 1
           /\ completed_count' = completed_count + 1
           /\ IF next_blob_index < Len(to_process)
              THEN /\ futures' = (next_blob_index :>
                                    NextContainer(container_idx, next_blob_index,
                                                  containers)) @@ popped
                   /\ fstate' = (next_blob_index :> "running") @@ popped_state
                   /\ next_blob_index' = AdvanceIndex(next_blob_index)
                   /\ dispatched' = dispatched + 1
                   /\ dispatch_count' =
                          [dispatch_count EXCEPT ![to_process[next_blob_index + 1]] = @ + 1]
              ELSE /\ futures' = popped
                   /\ fstate' = popped_state
                   /\ UNCHANGED << next_blob_index, dispatched, dispatch_count >>
    /\ done' = done \ {f}
    /\ pc' = IF done' = {} THEN "wait" ELSE "handle"
    /\ UNCHANGED << request_vars, container_vars, store, inputs, run, containers, to_process,
                    filter_history, worker_history, prev_run_complete >>

\* `while futures` ends: the executor is left and the counts are returned.
Finish ==
    /\ pc = "wait"
    /\ futures = EmptyMap
    /\ pc' = "done"
    /\ stop_requested' = cleanup_containers(containers, keep_container)
    /\ UNCHANGED << started_containers, interrupted >>
    /\ UNCHANGED << request_vars, store, inputs, run, containers, to_process, futures, fstate,
                    done, next_blob_index, counters, dispatched, dispatch_count,
                    filter_history, worker_history, prev_run_complete >>

\* The orchestrator is run again over the same listing with the same options.
StartRun ==
    /\ pc = "done"
    /\ run < MaxRuns
    /\ run' = run + 1
    /\ prev_run_complete' =
           /\ Accepted(blobs) # {}
           /\ pipelines_ok = Cardinality(Accepted(blobs))
    /\ pc' = "filter"
    /\ containers' = 0
    /\ started_containers' = {}
    /\ stop_requested' = {}
    /\ UNCHANGED interrupted
    /\ to_process' = <<>>
    /\ next_blob_index' = 0
    /\ completed_count' = 0
    /\ success_count' = 0
    /\ fail_count' = 0
    /\ dispatched' = 0
    /\ dispatch_count' = [b \in BlobIds |-> 0]
    /\ existed_at_filter' = {}
    /\ already_processed' = {}
    /\ returned_ok' = 0
    /\ returned_failed' = 0
    /\ pipelines_ok' = 0
    /\ UNCHANGED << request_vars, store, inputs, futures, fstate, done >>

(***************************************************************************)
(* process_single_file running in a pool thread for future f.              *)
(***************************************************************************)
\* The container answers the request: requests.post returns a response.
ContainerResponds(f) ==
    /\ f \in DOMAIN futures
    /\ fstate[f] = "running"
    /\ LET b == BlobOf(f)
       IN  \E outcome \in RequestOutcomes[b] :
               /\ store' = store \cup RequestWrites[b][outcome]
               /\ fstate' = [fstate EXCEPT
                                ![f] = single_file_result(response_status(outcome))]
               /\ IF response_status(outcome) = 200
                  THEN /\ returned_ok' = returned_ok + 1
                       /\ returned_failed' = returned_failed
                  ELSE /\ returned_ok' = returned_ok
                       /\ returned_failed' = returned_failed + 1
               /\ pipelines_ok' = IF outcome = "processed"
                                  THEN pipelines_ok + 1 ELSE pipelines_ok
    /\ UNCHANGED << request_vars, container_vars, inputs, run, pc, containers, to_process, futures, done,
                    next_blob_index, counters, dispatched, dispatch_count,
                    filter_history, prev_run_complete >>

\* requests.post raises (no response); the except clause returns False.
TransportError(f) ==
    /\ f \in DOMAIN futures
    /\ fstate[f] = "running"
    /\ fstate' = [fstate EXCEPT ![f] = "transport_exc"]
    /\ returned_failed' = returned_failed + 1
    /\ UNCHANGED << request_vars, container_vars, store, inputs, run, pc, containers, to_process, futures, done,
                    next_blob_index, counters, dispatched, dispatch_count,
                    filter_history, returned_ok, pipelines_ok,
                    prev_run_complete >>

\* An exception leaves process_single_file (raised inside its except clause):
\* the future holds an exception, which future.result() re-raises.
FutureRaises(f) ==
    /\ f \in DOMAIN futures
    /\ fstate[f] = "running"
    /\ fstate' = [fstate EXCEPT ![f] = "raised"]
    /\ returned_failed' = returned_failed + 1
    /\ UNCHANGED << request_vars, container_vars, store, inputs, run, pc, containers, to_process, futures, done,
                    next_blob_index, counters, dispatched, dispatch_count,
                    filter_history, returned_ok, pipelines_ok,
                    prev_run_complete >>

\* Indices a future can have
FutureIds == 0..(Len(AllBlobs) - 1)

WorkerReturns(f) ==
    \/ ContainerResponds(f)
    \/ TransportError(f)
    \/ FutureRaises(f)

AnyWorkerReturns == \E f \in FutureIds : WorkerReturns(f)

OrchestratorStep ==
    \/ Filter
    \/ Seed
    \/ Wait
    \/ \E f \in FutureIds : HandleOne(f)
    \/ Finish

\* One run of the orchestrator
RunNext ==
    \/ OrchestratorStep
    \/ AnyWorkerReturns

Next ==
    \/ RunNext
    \/ StartRun

Spec == Init /\ [][Next]_vars

\* The listings made of the first k blobs of the bucket, with the default format.
PrefixInit ==
    \E k \in 0..MaxAssets, n \in 1..MaxContainers :
        Start([i \in 1..k |-> i], "ts", n)

\* One run in which the orchestrator thread keeps running and a request that
\* is outstanding eventually returns.
FairRunSpec ==
    /\ PrefixInit
    /\ [][RunNext]_vars
    /\ WF_vars(OrchestratorStep)
    /\ WF_vars(AnyWorkerReturns)

\* The scenario of five pending assets: the first five blobs, none processed yet.
ScenarioListing == <<1, 2, 3, 4, 5>>

ScenarioInit == \E n \in 1..MaxContainers : Start(ScenarioListing, "ts", n)

\* One run over the scenario listing in which the orchestrator thread keeps
\* running; nothing is assumed about when, or whether, a request returns.
OrchestratorFairSpec ==
    /\ ScenarioInit
    /\ [][RunNext]_vars
    /\ WF_vars(OrchestratorStep)

(***************************************************************************)
(* SIGINT during a run: signal_handler calls sys.exit(1), which raises     *)
(* SystemExit in the main thread wherever it is.                           *)
(***************************************************************************)
run_state == << run, containers, to_process, futures, fstate, done,
                next_blob_index, counters, dispatched, dispatch_count,
                filter_history, worker_history, prev_run_complete >>

\* SIGINT arrives while the main thread is in setup_docker_containers, which
\* process_files_in_parallel calls before its try statement: k containers have
\* been started (deploy-local.sh, `docker run -d`), k is the whole pool
\* during the final time.sleep(3). No finally clause is active: the program exits.
InterruptDuringSetup ==
    /\ pc = "filter"
    /\ ~ interrupted
    /\ \E k \in 0..setup_docker_containers(num_containers) :
          started_containers' = 0..(k - 1)
    /\ interrupted' = TRUE
    /\ pc' = "exited"
    /\ UNCHANGED << stop_requested, request_vars, store, inputs, run_state >>

\* SIGINT arrives while the main thread is inside the with statement of the
\* executor: SystemExit leaves the loop, and the with statement waits for
\* the pool threads (executor.shutdown(wait=True)).
Interrupt ==
    /\ pc \in {"seed", "wait", "handle"}
    /\ ~ interrupted
    /\ interrupted' = TRUE
    /\ pc' = "shutdown"
    /\ UNCHANGED << started_containers, stop_requested, request_vars, store,
                    inputs, run_state >>

\* Every pool thread has returned: the finally clause runs cleanup_containers
\* and the program exits with status 1.
ExecutorShutdown ==
    /\ pc = "shutdown"
    /\ \A f \in DOMAIN futures : fstate[f] # "running"
    /\ stop_requested' = cleanup_containers(containers, keep_container)
    /\ pc' = "exited"
    /\ UNCHANGED << started_containers, interrupted, request_vars, store,
                    inputs, run_state >>

InterruptInit ==
    \E k \in 0..MaxAssets, n \in 1..MaxContainers, keep \in BOOLEAN :
        StartWith([i \in 1..k |-> i], "ts", n, keep)

InterruptNext ==
    \/ RunNext
    \/ InterruptDuringSetup
    \/ Interrupt
    \/ ExecutorShutdown

\* One run of the orchestrator during which SIGINT may arrive.
InterruptSpec == InterruptInit /\ [][InterruptNext]_vars

(***************************************************************************)
(* One request in a worker container, step by step: main.http_handler,     *)
(* main.process, FileProcessor.process, process_image and process_video    *)
(* with its transcode subprocess and its upload thread.                    *)
(***************************************************************************)
\* The events a request can carry: each object of the bucket with the content
\* type of the object or the one process_single_file puts in the event, and
\* an object in a THUMBS directory at the bucket root.
RootThumbsEvent ==
    [ name |-> <<"T","H","U","M","B","S","/","q",".","j","p","g">>,
      content_type |-> <<"i","m","a","g","e","/","j","p","e","g">>,
      options |-> EmptyMap ]

\* process_single_file: the options of the event data, with a key for each of
\* height and video_format that is not None; <<>> and "None" stand for None.
event_options(height, output_format) ==
    [ k \in (IF height # <<>> THEN {"height"} ELSE {}) \cup
            (IF output_format # "None" THEN {"output_format"} ELSE {})
        |-> IF k = "height" THEN height[1] ELSE output_format ]

\* The options of a request: none (a storage trigger, or RunBulk without
\* options), a height, a height and an output format.
RequestOptions ==
    { event_options(<<>>, "None"),
      event_options(<< 256 >>, "None"),
      event_options(<< 256 >>, "mp4") }

Events ==
    UNION { { [ name |-> BlobName[b], content_type |-> BlobContentType[b],
                options |-> o ],
              [ name |-> BlobName[b],
                content_type |-> request_content_type(BlobContentType[b]),
                options |-> o ] } :
            b \in BlobIds, o \in RequestOptions }
    \cup { RootThumbsEvent }

\* What an earlier successful request for the same object left in the bucket.
PriorArtifacts(e) ==
    IF trigger_skips(e.name) \/ get_file_type(e.content_type, e.name) = TYPE_UNKNOWN
    THEN {}
    ELSE objects_written(e.name, e.content_type, "processed")

\* The orchestrator is not running.
OrchestratorIdle ==
    /\ blobs = <<>>
    /\ video_format = "ts"
    /\ num_containers = 1
    /\ run = 1
    /\ pc = "idle"
    /\ keep_container = FALSE
    /\ started_containers = {}
    /\ stop_requested = {}
    /\ interrupted = FALSE
    /\ containers = 0
    /\ to_process = <<>>
    /\ futures = EmptyMap
    /\ fstate = EmptyMap
    /\ done = {}
    /\ next_blob_index = 0
    /\ completed_count = 0
    /\ success_count = 0
    /\ fail_count = 0
    /\ dispatched = 0
    /\ dispatch_count = [b \in BlobIds |-> 0]
    /\ existed_at_filter = {}
    /\ already_processed = {}
    /\ returned_ok = 0
    /\ returned_failed = 0
    /\ pipelines_ok = 0
    /\ prev_run_complete = FALSE

\* http_handler has parsed the event and is about to call process.
TriggerInit ==
    \E e \in Events, prior \in BOOLEAN :
        /\ store = {e.name} \cup (IF prior THEN PriorArtifacts(e) ELSE {})
        /\ OrchestratorIdle
        /\ event = e
        /\ hpc = "received"
        /\ response = 0
        /\ temp_files = {}
        /\ thumb_local_path = "none"
        /\ metadata_local_path = "none"
        /\ fifo = "none"
        /\ ffmpeg_process = "none"
        /\ uploader = "none"
        /\ upload_success = FALSE
        /\ upload_error_cell = FALSE
        /\ upload_error = FALSE
        /\ video_result = "none"
        /\ probe_runs = <<>>
        /\ thumb_attempts = <<>>
        /\ wait_timed_out = FALSE
        /\ error_at_wait = FALSE
        /\ stream_formats = NoFormats
        /\ WorkerIdle

handler_locals == << thumb_local_path, metadata_local_path >>
transcode_vars == << fifo, ffmpeg_process, uploader, upload_success,
                     upload_error_cell, upload_error >>
request_history == << probe_runs, thumb_attempts, wait_timed_out, error_at_wait,
                      stream_formats >>

\* The temporary files of the video pipeline: mkstemp in process_video
\* ("thumb0", "meta0"), in extract_video_metadata ("meta1") and in
\* extract_thumbnail ("thumb1").
VideoTempFiles == {"thumb0", "meta0", "meta1", "thumb1"}

\* main.process returns normally: http_handler answers 200.
Return200 ==
    /\ hpc' = "responded"
    /\ response' = 200

\* An exception leaves main.process: http_handler answers 500.
Raise500 ==
    /\ hpc' = "responded"
    /\ response' = 500

\* main.process: the empty-name test and the THUMBS/COMPRESSED/.webp/.ts test.
TriggerFilter ==
    /\ hpc = "received"
    /\ IF event.name = <<>> \/ trigger_skips(event.name)
       THEN Return200
       ELSE /\ hpc' = "process"
            /\ response' = response
    /\ UNCHANGED << store, orchestrator_vars, worker_vars, event, temp_files, handler_locals,
                    transcode_vars, video_result, request_history >>

\* FileProcessor.process: dispatch on the file type; ValueError for Unknown.
FileProcessorProcess ==
    /\ hpc = "process"
    /\ LET file_type == get_file_type(event.content_type, event.name)
       IN  IF file_type = TYPE_IMAGE
           THEN hpc' = "process_image" /\ response' = response
           ELSE IF file_type = TYPE_VIDEO
                THEN hpc' = "ensure_directories" /\ response' = response
                ELSE Raise500
    /\ UNCHANGED << store, orchestrator_vars, worker_vars, event, temp_files, handler_locals,
                    transcode_vars, video_result, request_history >>

\* process_image: mkstemp and download (outside the try), then compress_image;
\* the except clause removes the downloaded file.
ProcessImage ==
    /\ hpc = "process_image"
    /\ \E step \in {"download_failed", "compress_failed", "ok"} :
          CASE step = "download_failed" ->
                   /\ temp_files' = temp_files \cup {"img_in"}
                   /\ Raise500
            [] step = "compress_failed" ->
                   /\ temp_files' = temp_files
                   /\ Raise500
            [] OTHER ->
                   /\ temp_files' = temp_files \cup {"img_in", "img_out"}
                   /\ hpc' = "upload_output"
                   /\ response' = response
    /\ UNCHANGED << store, orchestrator_vars, worker_vars, event, handler_locals,
                    transcode_vars, video_result, request_history >>

\* The except clause of process_video: remove the files the two locals name.
cleanup_on_error(files, thumb_path, metadata_path) ==
    files \ {thumb_path, metadata_path}

\* An exception inside the try of process_video: cleanup, re-raise; main.process
\* re-raises and http_handler answers 500.
VideoExcept(files) ==
    /\ temp_files' = cleanup_on_error(files, thumb_local_path, metadata_local_path)
    /\ video_result' = "Failed"
    /\ Raise500

\* An exception in process_video outside its try: nothing is cleaned up.
VideoRaiseOutsideTry(files) ==
    /\ temp_files' = files
    /\ video_result' = "Failed"
    /\ Raise500

\* process_video: _ensure_directory_exists for THUMBS/ and COMPRESSED/.
EnsureDirectories ==
    /\ hpc = "ensure_directories"
    /\ \E ok \in BOOLEAN :
          IF ok
          THEN /\ store' = store \cup video_dir_markers(event.name)
               /\ hpc' = "mkstemp"
               /\ UNCHANGED << response, temp_files, video_result >>
          ELSE /\ store' = store
               /\ VideoRaiseOutsideTry(temp_files)
    /\ UNCHANGED << orchestrator_vars, worker_vars, event, handler_locals, transcode_vars,
                    request_history >>

\* process_video: the two mkstemp calls.
CreateTempFiles ==
    /\ hpc = "mkstemp"
    /\ temp_files' = temp_files \cup {"thumb0", "meta0"}
    /\ thumb_local_path' = "thumb0"
    /\ metadata_local_path' = "meta0"
    /\ hpc' = "signed_url"
    /\ UNCHANGED << store, orchestrator_vars, worker_vars, event, response, transcode_vars,
                    video_result, request_history >>

\* process_video: _get_signed_url, before the try.
GetSignedUrl ==
    /\ hpc = "signed_url"
    /\ \E ok \in BOOLEAN :
          IF ok
          THEN /\ hpc' = "blob_reload"
               /\ UNCHANGED << response, temp_files, video_result >>
          ELSE VideoRaiseOutsideTry(temp_files)
    /\ UNCHANGED << store, orchestrator_vars, worker_vars, event, handler_locals,
                    transcode_vars, request_history >>

\* process_video: blob.reload() and determine_video_settings.
ReloadBlob ==
    /\ hpc = "blob_reload"
    /\ \E ok \in BOOLEAN :
          IF ok
          THEN /\ hpc' = "probe"
               /\ \E size \in Sizes : SelectSettings(size)
               /\ UNCHANGED << response, temp_files, video_result >>
          ELSE /\ VideoExcept(temp_files)
               /\ UNCHANGED settings_vars
    /\ UNCHANGED << store, orchestrator_vars, fn_vars, event, handler_locals,
                    transcode_vars, request_history >>

\* Variant: a failure of ffprobe is swallowed.
probe_raises_never(result) == FALSE

\* Variant: only the exit status of ffprobe is looked at.
probe_raises_on_exit_code_only(result) == result = "nonzero"

\* extract_video_metadata raises: subprocess.run(..., check=True) on a nonzero
\* exit of ffprobe, json.loads on an output that is not JSON.
probe_raises(result) == result \in {"nonzero", "unparsable"}

\* extract_video_metadata: mkstemp, ffprobe with check=True, json.loads; then
\* parse_video_dimensions, the adjustment of the resolution and
\* determine_thumbnail_position.
ExtractVideoMetadata ==
    /\ hpc = "probe"
    /\ \E result \in {"ok", "nonzero", "unparsable"} :
          /\ probe_runs' = Append(probe_runs, result)
          /\ IF ~ probe_raises(result)
             THEN /\ temp_files' = temp_files \cup {"meta1"}
                  /\ metadata_local_path' = "meta1"
                  /\ hpc' = "thumbnail"
                  /\ \E height \in Heights : AdjustResolution(height)
                  /\ UNCHANGED << response, video_result >>
             ELSE /\ VideoExcept(temp_files \cup {"meta1"})
                  /\ metadata_local_path' = metadata_local_path
                  /\ UNCHANGED settings_vars
    /\ UNCHANGED << store, orchestrator_vars, fn_vars, event, thumb_local_path,
                    transcode_vars, thumb_attempts, wait_timed_out, error_at_wait,
                    stream_formats >>

\* main.process: FileProcessor.process(file_info=..., options={}); the options
\* of the event data are not read.
process_options(data) == EmptyMap

\* process_video: thumb_height = options.get('height', THUMBNAIL_HEIGHT)
thumb_height(options) ==
    IF "height" \in DOMAIN options THEN options["height"] ELSE THUMBNAIL_HEIGHT

\* Variant: only a nonzero exit of the first command leads to the second one.
NeedsFallback_nonzero_only(result) == result = "nonzero"

\* extract_thumbnail: except (TimeoutExpired, CalledProcessError)
NeedsFallback(result) == result \in {"timeout", "nonzero"}

\* extract_thumbnail: mkstemp and the first command, with timeout=10.  "oserror"
\* is an exception of subprocess.run other than the two that are caught.
ExtractThumbnail ==
    /\ hpc = "thumbnail"
    /\ \E result \in {"ok", "timeout", "nonzero", "oserror"} :
          /\ thumb_attempts' =
                 Append(thumb_attempts,
                        [ kind |-> "primary", result |-> result,
                          height |-> thumb_height(process_options(event)) ])
          /\ IF result = "ok"
             THEN /\ temp_files' = temp_files \cup {"thumb1"}
                  /\ thumb_local_path' = "thumb1"
                  /\ hpc' = "create_pipe"
                  /\ UNCHANGED << response, video_result >>
             ELSE IF NeedsFallback(result)
                  THEN /\ temp_files' = temp_files \cup {"thumb1"}
                       /\ hpc' = "thumbnail_fallback"
                       /\ UNCHANGED << response, video_result, thumb_local_path >>
                  ELSE /\ VideoExcept(temp_files \cup {"thumb1"})
                       /\ thumb_local_path' = thumb_local_path
    /\ UNCHANGED << store, orchestrator_vars, worker_vars, event, metadata_local_path,
                    transcode_vars, probe_runs, wait_timed_out, error_at_wait,
                    stream_formats >>

\* extract_thumbnail: the second command (first frame), check=True, no timeout.
ExtractThumbnailFallback ==
    /\ hpc = "thumbnail_fallback"
    /\ \E result \in {"ok", "nonzero"} :
          /\ thumb_attempts' =
                 Append(thumb_attempts,
                        [ kind |-> "fallback", result |-> result,
                          height |-> thumb_height(process_options(event)) ])
          /\ IF result = "ok"
             THEN /\ thumb_local_path' = "thumb1"
                  /\ hpc' = "create_pipe"
                  /\ UNCHANGED << response, temp_files, video_result >>
             ELSE /\ VideoExcept(temp_files)
                  /\ thumb_local_path' = thumb_local_path
    /\ UNCHANGED << store, orchestrator_vars, worker_vars, event, metadata_local_path,
                    transcode_vars, probe_runs, wait_timed_out, error_at_wait,
                    stream_formats >>

\* create_named_pipe: mktemp and os.mkfifo.
CreateNamedPipe ==
    /\ hpc = "create_pipe"
    /\ \E ok \in BOOLEAN :
          IF ok
          THEN /\ fifo' = "exists"
               /\ hpc' = "start_uploader"
               /\ UNCHANGED << response, temp_files, video_result >>
          ELSE /\ fifo' = fifo
               /\ VideoExcept(temp_files)
    /\ UNCHANGED << store, orchestrator_vars, worker_vars, event, handler_locals,
                    ffmpeg_process, uploader, upload_success, upload_error_cell,
                    upload_error, request_history >>

\* create_upload_worker returns (upload_worker, upload_success, upload_error):
\* the third element is the value upload_error has at the return.
create_upload_worker_returns(cell) == cell

\* process_video: create_upload_worker and upload_thread.start().
StartUploader ==
    /\ hpc = "start_uploader"
    /\ upload_success' = FALSE
    /\ upload_error_cell' = FALSE
    /\ upload_error' = create_upload_worker_returns(upload_error_cell')
    /\ uploader' = "started"
    /\ stream_formats' = [stream_formats EXCEPT !.blob = compressed_blob_content_type]
    /\ hpc' = "popen"
    /\ UNCHANGED << store, orchestrator_vars, worker_vars, event, response, temp_files,
                    handler_locals, fifo, ffmpeg_process, video_result,
                    probe_runs, thumb_attempts, wait_timed_out, error_at_wait >>

\* Variant: the pipe is left in place.
unlink_pipe_skipped(f) == f

\* The finally clause: if os.path.exists(pipe_path): os.unlink(pipe_path)
unlink_pipe(f) == IF f = "exists" THEN "unlinked" ELSE f

\* process_video: build_ffmpeg_command, called without an output format, and
\* subprocess.Popen(compress_cmd).  When
\* Popen raises, ffmpeg_process is None in the except clause, and the finally
\* clause runs.
Popen ==
    /\ hpc = "popen"
    /\ BuildCommand
    /\ \E ok \in BOOLEAN :
          IF ok
          THEN /\ ffmpeg_process' = "opening"
               /\ hpc' = "monitor"
               /\ UNCHANGED << response, temp_files, video_result, fifo >>
          ELSE /\ ffmpeg_process' = ffmpeg_process
               /\ fifo' = unlink_pipe(fifo)
               /\ VideoExcept(temp_files)
    /\ stream_formats' =
           [stream_formats EXCEPT !.container = ffmpeg_container_format("None")]
    /\ UNCHANGED << store, orchestrator_vars, fn_vars, event, handler_locals, uploader,
                    upload_success, upload_error_cell, upload_error,
                    probe_runs, thumb_attempts, wait_timed_out, error_at_wait >>

\* Variant: the return code is not looked at.
TranscodeFailed_ignored(process_state) == FALSE

\* ffmpeg_process.returncode != 0
TranscodeFailed(process_state) == process_state = "exit_nonzero"

\* process_video: the loop `while ffmpeg_process.poll() is None` ends, and the
\* return code is checked.
Monitor ==
    /\ hpc = "monitor"
    /\ ffmpeg_process \in {"exit_zero", "exit_nonzero"}
    /\ IF TranscodeFailed(ffmpeg_process)
       THEN /\ fifo' = unlink_pipe(fifo)
            /\ VideoExcept(temp_files)
       ELSE /\ hpc' = "wait_upload"
            /\ UNCHANGED << response, temp_files, video_result, fifo >>
    /\ UNCHANGED << store, orchestrator_vars, worker_vars, event, handler_locals,
                    ffmpeg_process, uploader, upload_success, upload_error_cell,
                    upload_error, request_history >>

\* process_video: upload_success.wait(timeout=60) returns, because the event is
\* set or because of the timeout; then `if upload_error: raise`; then the
\* finally clause.
WaitUpload ==
    /\ hpc = "wait_upload"
    /\ wait_timed_out' = ~ upload_success
    /\ error_at_wait' = upload_error_cell
    /\ stream_formats' = stream_formats
    /\ fifo' = unlink_pipe(fifo)
    /\ IF upload_error
       THEN VideoExcept(temp_files)
       ELSE /\ hpc' = "finalize"
            /\ UNCHANGED << response, temp_files, video_result >>
    /\ UNCHANGED << store, orchestrator_vars, worker_vars, event, handler_locals,
                    ffmpeg_process, uploader, upload_success, upload_error_cell,
                    upload_error, probe_runs, thumb_attempts >>

\* process_video: compressed_blob.reload(), which raises NotFound when the
\* object does not exist; then the result is returned.
Finalize ==
    /\ hpc = "finalize"
    /\ IF prepare_file_paths(event.name).compressed_path \in store
       THEN /\ video_result' = "Done"
            /\ hpc' = "upload_output"
            /\ UNCHANGED << response, temp_files >>
       ELSE VideoExcept(temp_files)
    /\ UNCHANGED << store, orchestrator_vars, worker_vars, event, handler_locals,
                    transcode_vars, request_history >>

\* main.process: the THUMBS/ marker, the upload of the output file, and the
\* removal of the output file and of the downloaded input.
UploadOutput ==
    /\ hpc = "upload_output"
    /\ LET processed_file == IF video_result = "Done"
                             THEN thumb_local_path ELSE "img_out"
       IN  \E ok \in BOOLEAN :
              IF ok
              THEN /\ store' = store \cup { trigger_thumbs_marker(event.name),
                                            trigger_output_path(event.name) }
                   /\ temp_files' = temp_files \ {processed_file, "img_in"}
                   /\ Return200
              ELSE /\ store' = store
                   /\ temp_files' = temp_files
                   /\ Raise500
    /\ UNCHANGED << orchestrator_vars, worker_vars, event, handler_locals, transcode_vars,
                    video_result, request_history >>

\* The upload thread fails: upload_error = e; upload_success.set().
UploaderFails ==
    /\ upload_error_cell' = TRUE
    /\ upload_success' = TRUE
    /\ uploader' = "finished"

\* upload_worker: the content type is chosen (create_upload_worker was called
\* without an output format), then generate_signed_url.
UploaderSignsUrl ==
    /\ uploader = "started"
    /\ stream_formats' =
           [stream_formats EXCEPT !.upload = upload_content_type("None")]
    /\ \E ok \in BOOLEAN :
          IF ok
          THEN /\ uploader' = "opening"
               /\ UNCHANGED << upload_success, upload_error_cell >>
          ELSE UploaderFails
    /\ UNCHANGED << store, orchestrator_vars, worker_vars, event, hpc, response, temp_files,
                    handler_locals, fifo, ffmpeg_process, upload_error,
                    video_result, probe_runs, thumb_attempts, wait_timed_out,
                    error_at_wait >>

\* upload_worker: open(pipe_path, 'rb') is called; FileNotFoundError when the
\* pipe has been unlinked, otherwise the call blocks until a writer opens.
UploaderOpensPipe ==
    /\ uploader = "opening"
    /\ IF fifo = "exists"
       THEN /\ uploader' = "blocked_open"
            /\ UNCHANGED << upload_success, upload_error_cell >>
       ELSE UploaderFails
    /\ UNCHANGED << store, orchestrator_vars, worker_vars, event, hpc, response, temp_files,
                    handler_locals, fifo, ffmpeg_process, upload_error,
                    video_result, request_history >>

\* The transcoder opens the pipe for writing while the upload thread is
\* blocked opening it for reading: both opens return.
PipeRendezvous ==
    /\ uploader = "blocked_open"
    /\ ffmpeg_process = "opening"
    /\ uploader' = "streaming"
    /\ ffmpeg_process' = "writing"
    /\ UNCHANGED << store, orchestrator_vars, worker_vars, event, hpc, response, temp_files,
                    handler_locals, fifo, upload_success, upload_error_cell,
                    upload_error, video_result, request_history >>

\* The transcoder exits before it has opened its output (the input cannot be
\* read, or the command is rejected).
FfmpegFailsEarly ==
    /\ ffmpeg_process = "opening"
    /\ ffmpeg_process' = "exit_nonzero"
    /\ UNCHANGED << store, orchestrator_vars, worker_vars, event, hpc, response, temp_files,
                    handler_locals, fifo, uploader, upload_success,
                    upload_error_cell, upload_error, video_result,
                    request_history >>

\* The transcoder exits after having opened its output: with zero once all
\* its output is written to a pipe that is still read, with nonzero on an
\* encoding error or a broken pipe.
FfmpegExits ==
    /\ ffmpeg_process = "writing"
    /\ \E code \in {"exit_zero", "exit_nonzero"} :
          /\ code = "exit_zero" => uploader = "streaming"
          /\ ffmpeg_process' = code
    /\ UNCHANGED << store, orchestrator_vars, worker_vars, event, hpc, response, temp_files,
                    handler_locals, fifo, uploader, upload_success,
                    upload_error_cell, upload_error, video_result,
                    request_history >>

\* upload_worker: requests.put raises while the transcoder is writing (the
\* connection breaks); the pipe is closed on the reading side.
UploaderAborts ==
    /\ uploader = "streaming"
    /\ ffmpeg_process = "writing"
    /\ UploaderFails
    /\ UNCHANGED << store, orchestrator_vars, worker_vars, event, hpc, response, temp_files,
                    handler_locals, fifo, ffmpeg_process, upload_error,
                    video_result, request_history >>

\* upload_worker: the writer has closed the pipe, requests.put returns; 200 or
\* 201 is a success (the object then exists), any other status is an error.
UploaderPutReturns ==
    /\ uploader = "streaming"
    /\ ffmpeg_process \in {"exit_zero", "exit_nonzero"}
    /\ \E status_code \in {200, 403} :
          IF status_code \in {200, 201}
          THEN /\ store' = store \cup {prepare_file_paths(event.name).compressed_path}
               /\ upload_success' = TRUE
               /\ uploader' = "finished"
               /\ upload_error_cell' = upload_error_cell
          ELSE /\ store' = store
               /\ UploaderFails
    /\ UNCHANGED << orchestrator_vars, worker_vars, event, hpc, response, temp_files,
                    handler_locals, fifo, ffmpeg_process, upload_error,
                    video_result, request_history >>

HandlerStep ==
    \/ TriggerFilter
    \/ FileProcessorProcess
    \/ ProcessImage
    \/ EnsureDirectories
    \/ CreateTempFiles
    \/ GetSignedUrl
    \/ ReloadBlob
    \/ ExtractVideoMetadata
    \/ ExtractThumbnail
    \/ ExtractThumbnailFallback
    \/ CreateNamedPipe
    \/ StartUploader
    \/ Popen
    \/ Monitor
    \/ WaitUpload
    \/ Finalize
    \/ UploadOutput

UploaderStep ==
    \/ UploaderSignsUrl
    \/ UploaderOpensPipe
    \/ UploaderAborts
    \/ UploaderPutReturns

TranscoderStep ==
    \/ PipeRendezvous
    \/ FfmpegFailsEarly
    \/ FfmpegExits

TriggerNext ==
    \/ HandlerStep
    \/ UploaderStep
    \/ TranscoderStep

\* One request to a worker container.
TriggerSpec == TriggerInit /\ [][TriggerNext]_vars

\* One request in which the handler thread and the upload thread keep running
\* while they can take a step, a writer and a reader that both open the pipe
\* get through, and ffmpeg exits once its output is consumed or its reader is
\* gone.  Nothing makes ffmpeg exit while it is still opening the pipe.
TriggerFairSpec ==
    /\ TriggerSpec
    /\ WF_vars(HandlerStep)
    /\ WF_vars(UploaderStep)
    /\ WF_vars(PipeRendezvous)
    /\ WF_vars(FfmpegExits)

(***************************************************************************)
(* One worker process handling one video after another: what               *)
(* process_video does with the settings dictionaries of constants.py,      *)
(* which live as long as the process.                                      *)
(***************************************************************************)
handler_vars == << event, hpc, response, temp_files, handler_locals,
                   transcode_vars, video_result, request_history >>

SettingsInit ==
    /\ store = {}
    /\ OrchestratorIdle
    /\ RequestIdle

\* process_video is called for the next video and reaches determine_video_settings.
VideoSelected ==
    /\ compression_settings = "none"
    /\ Len(selected) < MaxVideos
    /\ \E size \in Sizes : SelectSettings(size)
    /\ UNCHANGED << store, orchestrator_vars, fn_vars, handler_vars >>

\* The probe succeeded: parse_video_dimensions and the adjustment.
VideoProbed ==
    /\ compression_settings # "none"
    /\ video_height = -1
    /\ \E height \in Heights : AdjustResolution(height)
    /\ UNCHANGED << store, orchestrator_vars, fn_vars, handler_vars >>

\* The thumbnail was made and the upload thread started: build_ffmpeg_command.
CommandBuilt ==
    /\ video_height >= 0
    /\ transcode_resolution = 0
    /\ BuildCommand
    /\ UNCHANGED << store, orchestrator_vars, fn_vars, handler_vars >>

\* process_video returns, or raises at any of its steps: its locals are gone,
\* the dictionaries of constants.py stay as they are.
VideoEnds ==
    /\ compression_settings # "none"
    /\ file_size' = 0
    /\ compression_settings' = "none"
    /\ video_height' = -1
    /\ transcode_resolution' = 0
    /\ UNCHANGED << settings, selected >>
    /\ UNCHANGED << store, orchestrator_vars, fn_vars, handler_vars >>

SettingsNext ==
    \/ VideoSelected
    \/ VideoProbed
    \/ CommandBuilt
    \/ VideoEnds

SettingsSpec == SettingsInit /\ [][SettingsNext]_vars

(***************************************************************************)
(* Calls of the functions of the program that depend on their arguments    *)
(* only: FileProcessor.get_file_type,                                      *)
(* VideoCompressionUtils.determine_thumbnail_position and                  *)
(* CompressionUtils.compress_image.                                        *)
(***************************************************************************)
\* File names and content types a caller passes; None is the empty sequence.
ClassifierNames ==
    {
      <<"a",".","m","p","4">>,  \* a.mp4
      <<"a",".","M","P","4">>,  \* a.MP4
      <<"a",".","M","o","V">>,  \* a.MoV
      <<"b",".","t","s">>,  \* b.ts
      <<"a",".","j","p","g">>,  \* a.jpg
      <<"a",".","J","P","G">>,  \* a.JPG
      <<"a",".","P","n","G">>,  \* a.PnG
      <<"a",".","t","x","t">>,  \* a.txt
      <<"a">>,  \* a
      <<"a",".","m","p","4",".","j","p","g">>,  \* a.mp4.jpg
      <<"a",".","j","p","g",".","m","k","v">>  \* a.jpg.mkv
    }

ClassifierContentTypes ==
    {
      <<>>,  \* None
      <<"v","i","d","e","o","/","m","p","4">>,  \* video/mp4
      <<"v","i","d","e","o","/","x","-","m","a","t","r","o","s","k","a">>,  \* video/x-matroska
      <<"i","m","a","g","e","/","j","p","e","g">>,  \* image/jpeg
      <<"i","m","a","g","e","/","p","n","g">>,  \* image/png
      <<"i","m","a","g","e","/","s","v","g","+","x","m","l">>,  \* image/svg+xml
      <<"t","e","x","t","/","p","l","a","i","n">>,  \* text/plain
      <<"a","p","p","l","i","c","a","t","i","o","n","/","o","c","t","e","t","-","s","t","r","e","a","m">>,  \* application/octet-stream
      <<"V","i","d","e","o","/","M","P","4">>  \* Video/MP4
    }

ClassifierCalls ==
    { [ fn |-> "get_file_type", content_type |-> ct, file_name |-> name ] :
      ct \in ClassifierContentTypes, name \in ClassifierNames }

\* Durations parse_video_dimensions returns, in milliseconds: 0 when the
\* metadata has none, and durations around 10 s and 30 s.
Durations ==
    { 0, 20, 500, 8000, 9980, 10000, 10020, 20000, 29980, 30000, 30020,
      100000, 3600000 }

ThumbnailPositionCalls ==
    { [ fn |-> "determine_thumbnail_position", duration |-> d ] : d \in Durations }

\* Images by their width, height and orientation tag, and the height asked for.
ImageWidths == { 1, 3, 640, 1000 }
ImageHeights == { 1, 100, 512, 513, 1024, 2000 }
Orientations == 0..8
RequestedHeights == { <<>>, << 256 >>, << 512 >> }

CompressImageCalls ==
    { [ fn |-> "compress_image", width |-> w, height_img |-> h,
        orientation |-> o, height |-> r ] :
      w \in ImageWidths, h \in ImageHeights, o \in Orientations,
      r \in RequestedHeights }

Calls == ClassifierCalls \cup ThumbnailPositionCalls \cup CompressImageCalls

\* A function of the program has been called on some arguments.
FunctionInit ==
    /\ store = {}
    /\ OrchestratorIdle
    /\ HandlerIdle
    /\ SettingsIdle
    /\ fn_call \in Calls
    /\ fn_result = <<>>

\* get_file_type returns.
Return_get_file_type ==
    /\ fn_call.fn = "get_file_type"
    /\ fn_result = <<>>
    /\ fn_result' = << get_file_type(fn_call.content_type, fn_call.file_name) >>
    /\ UNCHANGED << fn_call, store, orchestrator_vars, settings_vars, handler_vars >>

\* determine_thumbnail_position returns.
Return_determine_thumbnail_position ==
    /\ fn_call.fn = "determine_thumbnail_position"
    /\ fn_result = <<>>
    /\ fn_result' = << determine_thumbnail_position(fn_call.duration) >>
    /\ UNCHANGED << fn_call, store, orchestrator_vars, settings_vars, handler_vars >>

\* compress_image returns or raises.
Return_compress_image ==
    /\ fn_call.fn = "compress_image"
    /\ fn_result = <<>>
    /\ fn_result' = << compress_image(fn_call.width, fn_call.height_img,
                                      fn_call.orientation, fn_call.height) >>
    /\ UNCHANGED << fn_call, store, orchestrator_vars, settings_vars, handler_vars >>

FunctionNext ==
    \/ Return_get_file_type
    \/ Return_determine_thumbnail_position
    \/ Return_compress_image

FunctionSpec == FunctionInit /\ [][FunctionNext]_vars

(***************************************************************************)
(* Properties of the dispatch orchestrator.                                *)
(***************************************************************************)
InFlight == Cardinality(DOMAIN futures)
NotYetDispatched == Len(to_process) - dispatched
FailedResults == {"http_error", "transport_exc", "raised"}

\* C1: the number of in-flight assets never exceeds the pool size, and at
\* every wait it equals min(pool size, pending assets not yet completed).
C1_PoolBound ==
    /\ InFlight <= containers
    /\ pc = "wait" => InFlight = Min(containers, Len(to_process) - completed_count)

\* A wait with a full pool, after a completion was replaced by the next blob.
C1_Witness ==
    /\ pc = "wait"
    /\ containers = 2
    /\ InFlight = 2
    /\ completed_count >= 1
    /\ next_blob_index < Len(to_process)

\* C2: no two tracked requests target the same container, and every request
\* targets a container of the pool; so a container is given a new blob only
\* once the future of its previous blob has completed and been popped.
C2_OneRequestPerContainer ==
    /\ \A f, g \in DOMAIN futures : f # g => futures[f] # futures[g]
    /\ \A f \in DOMAIN futures : futures[f] \in 0..(containers - 1)
    /\ DOMAIN fstate = DOMAIN futures

\* Two completions were returned by one wait; the first has been handled and
\* its container re-used while the second is still to be handled.
C2_Witness ==
    /\ pc = "handle"
    /\ done # {}
    /\ \E f \in DOMAIN futures :
          /\ f >= containers
          /\ fstate[f] = "running"
          /\ f = next_blob_index - 1
          /\ \E g \in done : futures[g] # futures[f]

\* C3: within one run no pending asset is submitted more than once.
C3_AtMostOnce ==
    /\ \A b \in BlobIds : dispatch_count[b] <= 1
    /\ \A i, j \in 1..Len(to_process) : to_process[i] = to_process[j] => i = j

\* A finished run with more pending assets than containers, all submitted.
C3_Witness ==
    /\ pc = "done"
    /\ Len(to_process) > containers
    /\ containers = 2
    /\ \A i \in 1..Len(to_process) : dispatch_count[to_process[i]] = 1

\* C6: every failed request (non-200 response, transport exception, or an
\* exception held by the future) becomes exactly one increment of fail_count,
\* and a run that ends has submitted and counted every pending asset.
C6_FailuresCounted ==
    /\ returned_failed =
          fail_count + Cardinality({ f \in DOMAIN futures : fstate[f] \in FailedResults })
    /\ returned_ok =
          success_count + Cardinality({ f \in DOMAIN futures : fstate[f] = "ok" })
    /\ pc = "done" =>
          /\ futures = EmptyMap
          /\ success_count + fail_count = Len(to_process)
          /\ dispatched = Len(to_process)

\* A run that ended after failures and successes, with blobs submitted after
\* the first failure was counted.
C6_Witness ==
    /\ pc = "done"
    /\ fail_count >= 2
    /\ success_count >= 1
    /\ Len(to_process) > containers

\* C7: an accepted asset whose derived artifacts exist when the listing is
\* filtered is left out of the pending list and is never submitted in that run.
C7_ExistingSkipped ==
    \A b \in existed_at_filter :
        /\ dispatch_count[b] = 0
        /\ \A i \in 1..Len(to_process) : to_process[i] # b

\* A run that skipped an existing asset and submitted another one.
C7_Witness ==
    /\ pc = "done"
    /\ existed_at_filter # {}
    /\ dispatched >= 1

\* Counted, in-flight and not yet submitted assets add up to the pending list.
C4_Conservation ==
    success_count + fail_count + InFlight + NotYetDispatched = Len(to_process)

C4_Final ==
    pc = "done" =>
        /\ InFlight = 0
        /\ NotYetDispatched = 0
        /\ next_blob_index >= Len(to_process)
        /\ success_count + fail_count = dispatched

\* C4: every run terminates, given that the orchestrator thread runs and every
\* request returns; at the end nothing is in flight or left unsubmitted and
\* success_count + fail_count is the number of assets submitted, and in every
\* state the counted, in-flight and unsubmitted assets add up to to_process.
C4_Terminates == [](C4_Conservation /\ C4_Final) /\ <>(pc = "done")

\* A run that ended with successes and failures after re-using containers.
C4_Witness ==
    /\ pc = "done"
    /\ success_count >= 1
    /\ fail_count >= 1
    /\ dispatched > containers
    /\ containers = 2

\* Handling a completed future submits the next blob to that future's
\* container, whatever the state of the other futures.
C5_RefillStep ==
    \A f \in DOMAIN futures :
        (f \notin DOMAIN futures' /\ next_blob_index < Len(to_process)) =>
            /\ next_blob_index \in DOMAIN futures'
            /\ futures'[next_blob_index] = futures[f]
            /\ fstate'[next_blob_index] = "running"
            /\ \A g \in DOMAIN futures \ {f} : fstate'[g] = fstate[g]

C5_Completed(f) == f \in DOMAIN futures /\ fstate[f] # "running"

C5_ScenarioStart ==
    /\ containers = 2
    /\ Len(to_process) = 5
    /\ 0 \in DOMAIN futures /\ fstate[0] = "running"
    /\ C5_Completed(1)

\* C5: scheduling follows completion order.  A refill always goes to the
\* container of a future that has completed; a completed future is always
\* handled, no request being assumed to return; and with 2 containers and 5
\* pending assets, when asset #2 completes while asset #1 keeps running,
\* asset #3 is submitted to the container that served asset #2.
C5_CompletionOrder ==
    /\ [][C5_RefillStep]_vars
    /\ \A f \in FutureIds : C5_Completed(f) ~> (f \notin DOMAIN futures)
    /\ C5_ScenarioStart ~>
          \/ 2 \in DOMAIN futures /\ futures[2] = 1
          \/ ~ (0 \in DOMAIN futures /\ fstate[0] = "running")

\* Asset #3 runs on the container asset #2 used while asset #1 is still running.
C5_Witness ==
    /\ containers = 2
    /\ Len(to_process) = 5
    /\ 0 \in DOMAIN futures /\ fstate[0] = "running"
    /\ 1 \notin DOMAIN futures
    /\ 2 \in DOMAIN futures /\ futures[2] = 1 /\ fstate[2] = "running"

(***************************************************************************)
(* Properties of the idempotency check.                                    *)
(***************************************************************************)
\* C8 as stated: success_count includes one for every asset skipped as
\* already processed, in addition to the assets processed successfully.
C8_SkippedCountedAsSuccess ==
    pc = "done" => success_count = returned_ok + Cardinality(already_processed)

\* C8, amended: an asset skipped as already processed is counted neither as a
\* success nor as a failure; success_count is the number of submitted assets
\* whose request succeeded, and the counts and the skipped assets add up to
\* the accepted assets.
C8_SkippedNotCounted ==
    pc = "done" =>
        /\ success_count = returned_ok
        /\ success_count + fail_count + Cardinality(already_processed)
              = Cardinality(Accepted(blobs))

\* A run that ended having skipped an asset and processed another successfully.
C8_Witness ==
    /\ pc = "done"
    /\ already_processed # {}
    /\ success_count >= 1

\* C9 as stated: after a run in which every accepted asset was processed
\* successfully by the pipeline, the next run over the same listing with the
\* same options submits nothing.
C9_Idempotent ==
    (prev_run_complete /\ pc # "filter") => (to_process = <<>> /\ dispatched = 0)

\* C10 as stated: an asset classified Video (content type and name together)
\* is skipped as already processed only if both its thumbnail and its
\* compressed file exist; for an asset classified Image the thumbnail alone
\* decides.  Stated right after filtering, when the store is as it was read.
C10_VideoNeedsBoth ==
    pc = "seed" =>
        \A b \in Accepted(blobs) :
            LET file_type == get_file_type(BlobContentType[b], BlobName[b])
                thumb_exists == get_thumb_path(BlobName[b]) \in store
                compressed_exists ==
                    get_compressed_path(BlobName[b], video_format) \in store
            IN  /\ file_type = TYPE_VIDEO =>
                      (b \in already_processed => thumb_exists /\ compressed_exists)
                /\ file_type = TYPE_IMAGE =>
                      (b \in already_processed <=> thumb_exists)

(***************************************************************************)
(* Properties of the classification and of the derived paths.              *)
(***************************************************************************)
\* The blobs classified Unknown from their content type and name
UnknownBlobs ==
    { b \in BlobIds :
        get_file_type(BlobContentType[b], BlobName[b]) = TYPE_UNKNOWN }

\* C11: an asset classified Unknown is skipped by the orchestrator: it is
\* never in the pending list, never submitted, and the two counts together
\* never exceed the number of listed assets that are not Unknown.
C11_UnknownSkipped ==
    /\ \A i \in 1..Len(blobs) :
          blobs[i] \in UnknownBlobs =>
              /\ dispatch_count[blobs[i]] = 0
              /\ \A j \in 1..Len(to_process) : to_process[j] # blobs[i]
    /\ success_count + fail_count <=
          Cardinality({ i \in 1..Len(blobs) : blobs[i] \notin UnknownBlobs })

\* A finished run over a listing that holds an Unknown asset and others.
C11_Witness ==
    /\ pc = "done"
    /\ \E i \in 1..Len(blobs) : blobs[i] \in UnknownBlobs
    /\ success_count >= 1
    /\ fail_count >= 1

\* C12 as stated: a request for an asset that matches neither a video nor an
\* image signal ends without an error: the response is not a failure.
C12_UnknownIsSkip ==
    (hpc = "responded" /\
     get_file_type(event.content_type, event.name) = TYPE_UNKNOWN)
        => response = 200

\* The paths derived from an asset: those the orchestrator tests and those the
\* worker writes its thumbnail and, for a video, its compressed file to.
DerivedPaths(b, fmt) ==
    { get_thumb_path(BlobName[b]), trigger_output_path(BlobName[b]) } \cup
    ( IF get_file_type(BlobContentType[b], BlobName[b]) = TYPE_VIDEO
      THEN { get_compressed_path(BlobName[b], fmt),
             prepare_file_paths(BlobName[b]).compressed_path }
      ELSE {} )

\* C13 as stated: two different accepted assets share no derived path.
C13_DisjointDerivedPaths ==
    \A b1, b2 \in Accepted(blobs) :
        b1 # b2 => DerivedPaths(b1, video_format) \cap
                   DerivedPaths(b2, video_format) = {}

\* A path has a directory component named THUMBS or COMPRESSED in any case.
HasDerivedDirectory(path) ==
    \E i, j \in 1..Len(path) :
        /\ i <= j
        /\ i = 1 \/ path[i - 1] = "/"
        /\ j < Len(path) /\ path[j + 1] = "/"
        /\ upper(SubSeq(path, i, j)) \in {THUMBS_DIRECTORY, COMPRESSED_DIRECTORY}

\* C14 as stated: an object under a directory named THUMBS or COMPRESSED in
\* any letter case is not accepted by should_process_file and is never
\* pending or submitted.
C14_DerivedDirectoriesExcluded ==
    \A i \in 1..Len(blobs) :
        HasDerivedDirectory(BlobName[blobs[i]]) =>
            /\ ~ ShouldProcess[blobs[i]]
            /\ dispatch_count[blobs[i]] = 0
            /\ \A j \in 1..Len(to_process) : to_process[j] # blobs[i]

(***************************************************************************)
(* Properties of the video pipeline.                                       *)
(***************************************************************************)
\* C15 as stated: when the uploader has reported an error after the
\* transcoder exited with zero, process_video does not return a result.
C15_UploadErrorFails ==
    (error_at_wait /\ ffmpeg_process = "exit_zero") => video_result # "Done"

\* C16 as stated: when the wait for the uploader's completion signal ended
\* on its timeout, process_video does not return a result.
C16_TimeoutFails ==
    wait_timed_out => video_result # "Done"

\* C17: a nonzero exit of the transcoder makes the pipeline fail (the request
\* is answered 500 and no result is returned), and a failed pipeline never
\* leaves the transcoder running.
C17_NonzeroExitFails ==
    /\ video_result = "Done" => ffmpeg_process = "exit_zero"
    /\ (hpc = "responded" /\ ffmpeg_process = "exit_nonzero")
           => (video_result = "Failed" /\ response = 500)
    /\ video_result = "Failed" => ffmpeg_process \notin {"opening", "writing"}

\* The transcoder exited nonzero after it had started writing, and the
\* pipeline failed.
C17_Witness ==
    /\ video_result = "Failed"
    /\ ffmpeg_process = "exit_nonzero"
    /\ uploader = "finished"
    /\ response = 500

C19_TempFilesCleaned ==
    /\ video_result = "Failed" => temp_files \cap VideoTempFiles = {}
    /\ (video_result = "Done" /\ hpc = "upload_output")
           => temp_files \cap VideoTempFiles = {thumb_local_path}

\* C20: the first-frame command runs exactly when the first command timed out
\* or exited nonzero, and at most once; when it fails too the pipeline fails
\* and the request is answered 500.
C20_ThumbnailFallback ==
    /\ Len(thumb_attempts) <= 2
    /\ \A i \in 1..Len(thumb_attempts) :
          /\ thumb_attempts[i].kind = "primary" <=> i = 1
          /\ thumb_attempts[i].kind = "fallback" =>
                 thumb_attempts[1].result \in {"timeout", "nonzero"}
    /\ (hpc \notin {"thumbnail", "thumbnail_fallback"} /\ thumb_attempts # <<>> /\
        thumb_attempts[1].result \in {"timeout", "nonzero"})
           => Len(thumb_attempts) = 2
    /\ (Len(thumb_attempts) = 2 /\ thumb_attempts[2].result = "nonzero")
           => (video_result = "Failed" /\ hpc = "responded" /\ response = 500)

\* The first command timed out, the first-frame command failed, and the
\* request was answered 500.
C20_Witness ==
    /\ Len(thumb_attempts) = 2
    /\ thumb_attempts[1].result = "timeout"
    /\ thumb_attempts[2].result = "nonzero"
    /\ response = 500


(***************************************************************************)
(* C21: a failure of the probe is fatal to the video.                      *)
(***************************************************************************)
\* C21: ffprobe is run at most once for a request, and when it exits nonzero
\* or its output cannot be parsed, process_video has failed and no thumbnail
\* command was run, no pipe was created, no upload thread was started and no
\* ffmpeg process was launched.
C21_ProbeFailureFatal ==
    /\ Len(probe_runs) <= 1
    /\ (probe_runs # <<>> /\ probe_runs[1] \in {"nonzero", "unparsable"}) =>
          /\ video_result = "Failed"
          /\ thumb_attempts = <<>>
          /\ fifo = "none"
          /\ uploader = "none"
          /\ ffmpeg_process = "none"

\* The output of ffprobe could not be parsed and the request was answered.
C21_Witness ==
    /\ probe_runs = << "unparsable" >>
    /\ hpc = "responded"
    /\ response = 500

(***************************************************************************)
(* C22: a size equal to a threshold.                                       *)
(***************************************************************************)
\* C22, as stated: for a video of exactly 1 GiB determine_video_settings
\* returns the Small dictionary, and for one of exactly 5 GiB the Medium one.
C22_BoundaryLowerBucket ==
    compression_settings # "none" =>
        /\ file_size = SMALL_VIDEO_THRESHOLD * KiBPerGiB
              => compression_settings = "small"
        /\ file_size = MEDIUM_VIDEO_THRESHOLD * KiBPerGiB
              => compression_settings = "medium"

\* C22, amended: for a video of exactly 1 GiB determine_video_settings returns
\* the Medium dictionary and for one of exactly 5 GiB the Large one; the
\* sizes one KiB below select Small and Medium.
C22_BoundaryUpperBucket ==
    compression_settings # "none" =>
        /\ file_size = SMALL_VIDEO_THRESHOLD * KiBPerGiB
              => compression_settings = "medium"
        /\ file_size = MEDIUM_VIDEO_THRESHOLD * KiBPerGiB
              => compression_settings = "large"
        /\ file_size = SMALL_VIDEO_THRESHOLD * KiBPerGiB - 1
              => compression_settings = "small"
        /\ file_size = MEDIUM_VIDEO_THRESHOLD * KiBPerGiB - 1
              => compression_settings = "medium"

\* A video of exactly 5 GiB has its settings selected in a process that
\* selected those of a video of exactly 1 GiB before.
C22_Witness ==
    /\ compression_settings = "large"
    /\ file_size = MEDIUM_VIDEO_THRESHOLD * KiBPerGiB
    /\ \E i \in 1..Len(selected) :
          selected[i].size = SMALL_VIDEO_THRESHOLD * KiBPerGiB

(***************************************************************************)
(* C23: the selector is total and monotone.                                *)
(***************************************************************************)
\* C23: in every state of a worker process, every size selects one of the
\* three dictionaries, and for sizes s1 <= s2 the crf selected for s1 is at
\* most the one selected for s2 while the resolution selected for s1 is at
\* least the one selected for s2.
C23_TotalMonotone ==
    /\ \A s \in Sizes :
          determine_video_settings(s) \in {"small", "medium", "large"}
    /\ \A s1, s2 \in Sizes :
          s1 <= s2 =>
              /\ settings[determine_video_settings(s1)].crf
                    <= settings[determine_video_settings(s2)].crf
              /\ settings[determine_video_settings(s1)].resolution
                    >= settings[determine_video_settings(s2)].resolution

(***************************************************************************)
(* C24: the policy of the classifier.                                      *)
(***************************************************************************)
\* The name ends, whatever the case of its letters, in one of the extensions.
has_extension(name, extensions) ==
    \E e \in extensions : endswith(lower(name), e)

\* C24: get_file_type returns Video whenever the content type starts with
\* 'video/' or the name has a video extension in any case, also when the
\* other signal is that of an image ('a.mp4' with 'image/jpeg'); otherwise it
\* returns Image when the content type is a supported image type or the name
\* has an image extension in any case; otherwise it returns Unknown.
C24_ClassifierPolicy ==
    (fn_call.fn = "get_file_type" /\ fn_result # <<>>) =>
        LET ct == fn_call.content_type
            name == fn_call.file_name
            video_signal ==
                \/ startswith(ct, <<"v","i","d","e","o","/">>)
                \/ has_extension(name, VIDEO_FORMATS)
            image_signal ==
                \/ ct \in SUPPORTED_MIMETYPES
                \/ has_extension(name, SUPPORTED_EXTENSIONS)
        IN  /\ video_signal => fn_result[1] = TYPE_VIDEO
            /\ (~ video_signal /\ image_signal) => fn_result[1] = TYPE_IMAGE
            /\ (~ video_signal /\ ~ image_signal) => fn_result[1] = TYPE_UNKNOWN
            /\ (name = <<"a",".","m","p","4">> /\ ct = <<"i","m","a","g","e","/","j","p","e","g">>)
                  => fn_result[1] = TYPE_VIDEO

\* get_file_type has returned Video for 'a.MoV' with the content type 'image/png'.
C24_Witness ==
    /\ fn_call.fn = "get_file_type"
    /\ fn_call.file_name = <<"a",".","M","o","V">>
    /\ fn_call.content_type = <<"i","m","a","g","e","/","p","n","g">>
    /\ fn_result = << TYPE_VIDEO >>

C26_ImageHeight ==
    (fn_call.fn = "compress_image" /\ fn_result # <<>> /\ ~ fn_result[1].raised) =>
        LET requested == IF fn_call.height = <<>> THEN THUMBNAIL_HEIGHT
                         ELSE fn_call.height[1]
            turned == fn_call.orientation \in 5..8
            source_width == IF turned THEN fn_call.height_img ELSE fn_call.width
            source_height == IF turned THEN fn_call.width ELSE fn_call.height_img
            out_width == fn_result[1].size[1]
            out_height == fn_result[1].size[2]
        IN  /\ out_height = Min(source_height, requested)
            /\ out_height <= requested
            /\ out_height <= source_height
            /\ source_height <= requested => out_width = source_width
            /\ source_height > requested =>
                  /\ out_width * source_height <= source_width * requested
                  /\ source_width * requested <= (out_width + 1) * source_height

\* An image of 1000 x 100 pixels tagged as turned by a quarter (its upright
\* height is 1000) was scaled down to the default height.
C26_Witness ==
    /\ fn_call.fn = "compress_image"
    /\ fn_call.width = 1000
    /\ fn_call.height_img = 100
    /\ fn_call.orientation = 6
    /\ fn_call.height = <<>>
    /\ fn_result = << [ raised |-> FALSE, size |-> << 51, 512 >> ] >>

(***************************************************************************)
(* C27: cancellation.                                                      *)
(***************************************************************************)
\* C27: once SIGINT has arrived no further asset is dispatched, and when the
\* program exits after it, `docker stop` has been run for every container
\* that was started (but for the main container under --keep-container, as
\* at the end of a run that was not interrupted).
C27_InterruptCleansUp ==
    [][ /\ interrupted => dispatched' = dispatched
        /\ (interrupted' /\ pc' = "exited") =>
               \A c \in started_containers' :
                   \/ c \in stop_requested'
                   \/ keep_container' /\ c = 0
      ]_vars

(***************************************************************************)
(* C28: the selector is pure and the settings of a video are its own.      *)
(***************************************************************************)
\* C28: no step of a worker process changes the three settings dictionaries,
\* and any two videos of the same size handled by the process had the same
\* settings returned by determine_video_settings.
C28_SelectorPure ==
    [][ /\ settings' = settings
        /\ \A i, j \in 1..Len(selected') :
              selected'[i].size = selected'[j].size
                  => selected'[i].returned = selected'[j].returned
      ]_vars

(***************************************************************************)
(* C29: the resolution given to the transcoder.                            *)
(***************************************************************************)
\* C29: the resolution in the ffmpeg command of a video is the smaller of the
\* resolution of the bucket of its size (720, 720, 480) and its probed height
\* when that height is known, the resolution of the bucket when the height
\* is 0; it is never above a known probed height.
C29_ResolutionClamp ==
    transcode_resolution # 0 =>
        LET bucket_target ==
                InitialSettings[determine_video_settings(file_size)].resolution
        IN  /\ video_height > 0 =>
                  /\ transcode_resolution = Min(bucket_target, video_height)
                  /\ transcode_resolution <= video_height
            /\ video_height = 0 => transcode_resolution = bucket_target

(***************************************************************************)
(* C30: one derived-path function for writing and for checking.            *)
(***************************************************************************)
\* C30: for every accepted asset of the listing the orchestrator has
\* filtered, under the format option of the run, the thumbnail path and (for
\* a video) the compressed path whose existence it tested are the paths the
\* pipeline and the trigger handler write the thumbnail and the compressed
\* video to.
C30_SamePathFunction ==
    pc \in {"seed", "wait", "handle", "done"} =>
        \A b \in Accepted(blobs) :
            LET name == BlobName[b]
                written == prepare_file_paths(name)
            IN  /\ get_thumb_path(name) = written.thumbs_path
                /\ get_thumb_path(name) = trigger_output_path(name)
                /\ get_file_type(BlobContentType[b], name) = TYPE_VIDEO =>
                       get_compressed_path(name, video_format)
                           = written.compressed_path

(***************************************************************************)
(* C31: the reader of the pipe is ready before the writer is started.      *)
(***************************************************************************)
\* C31: when the ffmpeg process is started the upload thread has called
\* open(pipe_path, 'rb'), and ffmpeg is never left opening the pipe for
\* writing after the upload thread has ended without opening it.
C31_ReaderReadyBeforeProducer ==
    [][ /\ (ffmpeg_process = "none" /\ ffmpeg_process' # "none")
              => uploader = "blocked_open"
        /\ ~ (ffmpeg_process' = "opening" /\ uploader' = "finished")
      ]_vars

(***************************************************************************)
(* C32: the order of the steps of process_video.                           *)
(***************************************************************************)
ProbeSucceeded ==
    probe_runs # <<>> /\ probe_runs[Len(probe_runs)] = "ok"

ThumbnailReady ==
    thumb_attempts # <<>> /\ thumb_attempts[Len(thumb_attempts)].result = "ok"

\* The steps after the probe: each position is reached only with its
\* predecessor completed, and nothing runs beside the handler before the
\* upload thread is started.
LaterStepsInOrder ==
    /\ hpc \in {"thumbnail", "thumbnail_fallback"} => ProbeSucceeded
    /\ hpc = "thumbnail" => thumb_attempts = <<>>
    /\ hpc = "create_pipe" => ProbeSucceeded /\ ThumbnailReady /\ fifo = "none"
    /\ hpc = "start_uploader" => ThumbnailReady /\ fifo = "exists" /\ uploader = "none"
    /\ hpc = "popen" => fifo = "exists" /\ uploader # "none" /\ ffmpeg_process = "none"
    /\ hpc = "monitor" => uploader # "none" /\ ffmpeg_process # "none"
    /\ hpc = "wait_upload" => ffmpeg_process = "exit_zero"
    /\ hpc = "finalize" => ffmpeg_process = "exit_zero" /\ fifo = "unlinked"
    /\ video_result = "Done"
          => /\ selected # <<>>
             /\ ProbeSucceeded
             /\ ThumbnailReady
             /\ uploader # "none"
             /\ ffmpeg_process = "exit_zero"
    /\ (uploader # "none" \/ ffmpeg_process # "none")
          => hpc \in {"popen", "monitor", "wait_upload", "finalize",
                      "upload_output", "responded"}
    /\ ffmpeg_process # "none" => uploader # "none"

\* C32 as stated: the steps of one video run in the order probe, settings
\* choice, thumbnail, pipe, upload thread, ffmpeg, finalization, so that
\* determine_video_settings is called only after ffprobe has succeeded.
C32_ClaimedStepOrder ==
    /\ selected # <<>> => ProbeSucceeded
    /\ LaterStepsInOrder

\* C32: the steps of one video run are taken in the order settings selection
\* (determine_video_settings on the size of the blob), probe and adjustment of
\* the resolution, thumbnail, pipe, upload thread, ffmpeg, finalization: no
\* step is reached before its predecessor has completed, and only the upload
\* thread and ffmpeg run beside the handler, from the start of the thread on.
C32_StepOrder ==
    /\ hpc = "blob_reload" => selected = <<>> /\ probe_runs = <<>>
    /\ hpc = "probe" => selected # <<>> /\ probe_runs = <<>>
    /\ probe_runs # <<>> => selected # <<>>
    /\ LaterStepsInOrder

C32_Witness ==
    /\ hpc = "responded"
    /\ video_result = "Done"
    /\ response = 200
    /\ ProbeSucceeded
    /\ uploader = "finished"

(***************************************************************************)
(* C33: the height option of the request.                                  *)
(***************************************************************************)
\* C33: every thumbnail command of a request is run with the height the
\* options of the event carry, and with THUMBNAIL_HEIGHT only when the event
\* carries no height.
C33_HeightOptionUsed ==
    \A i \in 1..Len(thumb_attempts) :
        thumb_attempts[i].height = thumb_height(event.options)

(***************************************************************************)
(* C34: one video format per run.                                          *)
(***************************************************************************)
\* The video format a -f argument, a content type and an extension denote.
format_of_container(f) == IF f = "mpegts" THEN "ts" ELSE f

format_of_content_type(ct) ==
    CASE ct = "video/mp2t" -> "ts"
      [] ct = "video/mp4" -> "mp4"
      [] ct = "video/webm" -> "webm"
      [] OTHER -> "unknown"

format_of_extension(ext) ==
    CASE ext = <<".","t","s">> -> "ts"
      [] ext = <<".","m","p","4">> -> "mp4"
      [] ext = <<".","w","e","b","m">> -> "webm"
      [] OTHER -> "unknown"

\* C34: in a video run that has returned, the -f argument given to ffmpeg, the
\* content type of the upload, the content type set on the compressed blob and
\* the extension of the compressed path denote one video format, which is the
\* output_format of the request when the request carries one.
C34_FormatConsistency ==
    video_result = "Done" =>
        LET f == format_of_container(stream_formats.container)
            compressed_path == prepare_file_paths(event.name).compressed_path
        IN  /\ format_of_content_type(stream_formats.upload) = f
            /\ format_of_content_type(stream_formats.blob) = f
            /\ format_of_extension(splitext(basename(compressed_path))[2]) = f
            /\ "output_format" \in DOMAIN event.options
                  => f = event.options["output_format"]

(***************************************************************************)
(* C35, C36: termination of the pipeline and of the upload thread.         *)
(***************************************************************************)
\* C35: every run of process_video eventually returns (Done) or raises
\* (Failed), given that ffmpeg exits once its output is consumed or its
\* reader is gone.
C35_PipelineTerminates ==
    (hpc = "ensure_directories") ~> (video_result \in {"Done", "Failed"})

\* C36: once process_video has returned or raised, the upload thread it
\* started eventually ends with upload_success set.
C36_UploaderTerminates ==
    (video_result \in {"Done", "Failed"} /\ uploader # "none")
        ~> (uploader = "finished" /\ upload_success)

(***************************************************************************)
(* C37: a counted success has its artifacts.                               *)
(***************************************************************************)
\* C37: for every request the orchestrator takes as a success (status 200),
\* the thumbnail of the asset is in the bucket, and so is the compressed file
\* when the asset is a video.
C37_SuccessImpliesArtifacts ==
    \A f \in DOMAIN fstate :
        CountsAsSuccess(fstate[f]) =>
            LET file_name == BlobName[BlobOf(f)]
                content_type == request_content_type(BlobContentType[BlobOf(f)])
            IN  /\ trigger_output_path(file_name) \in store
                /\ get_file_type(content_type, file_name) = TYPE_VIDEO
                      => prepare_file_paths(file_name).compressed_path \in store

(***************************************************************************)
(* C38: what the system writes is not processed again.                     *)
(***************************************************************************)
\* The content type of an object the worker wrote: the thumbnail gets the
\* 'type' of the result (image/webp), the compressed file the content type of
\* the PUT, a directory marker the default of upload_from_string.
derived_content_type(path) ==
    IF endswith(path, <<".","w","e","b","p">>)
    THEN <<"i","m","a","g","e","/","w","e","b","p">>
    ELSE IF endswith(path, <<".","w","e","b","m">>)
         THEN <<"v","i","d","e","o","/","m","p","2","t">>
         ELSE <<"t","e","x","t","/","p","l","a","i","n">>

\* C38: every object a step of a request writes (thumbnail, compressed file,
\* THUMBS/ and COMPRESSED/ markers), also for an asset at the bucket root, is
\* skipped by the test of main.process and refused by should_process_file.
C38_NoRetriggerLoop ==
    [][ \A path \in store' \ store :
            /\ trigger_skips(path)
            /\ ~ should_process_blob(path, derived_content_type(path))
      ]_vars

====
